---- MODULE Spec2Model ----
(***************************************************************************)
(* channels-console: the proxy wrappers of wrappers.rs (bounded,           *)
(* unbounded and one-shot forwarders) and the statistics collector of      *)
(* lib.rs, as one state machine.                                           *)
(*                                                                         *)
(* One instrumented channel is followed per behaviour.  The three channel  *)
(* hops of a wrapper are                                                   *)
(*    to_inner   : outer_tx      -> to_inner_rx   (one-shot: outer_rx_proxy)*)
(*    inner      : inner_tx      -> inner_rx                               *)
(*    from_inner : from_inner_tx -> outer_rx      (one-shot: inner_tx_proxy)*)
(* A one-shot hop is a queue of at most one value whose sender is consumed *)
(* by its send.  Every channel operation and every event emission of a     *)
(* forwarder is one atomic step: the forwarders run on a multi-threaded    *)
(* runtime, in parallel with each other, with the application and with the *)
(* collector thread.                                                       *)
(*                                                                         *)
(* Spec / FairSpec  : one wrapper, the application and the collector       *)
(* StoppedSpec      : the same wrappers when every event send fails        *)
(* CollectorSpec    : the collector under the events of several channels   *)
(* RoundTripSpec    : a ChannelType written as text and read back          *)
(***************************************************************************)
EXTENDS Naturals, Integers, Sequences, FiniteSets, TLC

\* Number of outer send attempts the application makes.
MaxMsgs == 4
\* Largest capacity of an instrumented bounded channel.
MaxCap == 2
\* Most events the collector lags behind: the event queue itself is unbounded.
MaxLag == 2

DEFAULT_LOG_LIMIT == 50

\* The id of the channel that is followed, and its creation site.
ChanId == 1

ChanSource == "src/main.rs:10"

None == 0

\* Option of a string or of a record: None and Some(x)
Nothing == <<>>

Some(x) == <<x>>

VARIABLES
    kind,                 \* "none" (not yet instrumented), "bounded", "unbounded", "oneshot"
    capacity,             \* inner_tx.capacity() of a bounded channel
    to_inner,             \* messages queued between outer_tx and the send-forwarder
    to_inner_closed,      \* to_inner_rx / outer_rx_proxy closed or dropped
    inner,                \* messages queued in the wrapped channel
    inner_tx_dropped,     \* inner_tx dropped (or consumed, one-shot)
    inner_rx_dropped,     \* inner_rx dropped (or consumed, one-shot)
    from_inner,           \* messages queued between the recv-forwarder and outer_rx
    from_inner_tx_dropped,\* from_inner_tx / inner_tx_proxy dropped (or consumed)
    close_signal,         \* the oneshot::channel::<()> between the forwarders
    sf_pc, sf_hand,       \* send-forwarder: position and message in hand
    rf_pc, rf_hand,       \* recv-forwarder: position and message in hand
    message_sent,         \* one-shot send-forwarder's flag
    message_received,     \* one-shot recv-forwarder's flag
    otx_dropped,          \* outer_tx dropped (or consumed, one-shot)
    orx_dropped,          \* outer_rx dropped
    next_msg,             \* outer send attempts made so far; the n-th carries value n
    accepted,             \* values for which the outer send returned Ok
    send_errs,            \* outer sends that returned a closed error
    received,             \* values the outer receiver has taken
    rx_eos,               \* outer receiver observed end-of-stream / RecvError
    evq,                  \* the collector's event queue (crossbeam unbounded)
    stats,                \* the stats map: id -> ChannelStats
    log_limit,            \* value get_log_limit() returns in this run
    collector_alive,      \* the collector thread runs and holds the queue's receiver
    next_id,              \* CHANNEL_ID_COUNTER
    produced,             \* events put on the queue by the instrumented program at large
    ct_in, ct_text, ct_out,\* a ChannelType, its serialized text, the text deserialized
    once,                 \* STATS_STATE's Once: "incomplete", "running", "complete"
    STATS_STATE,          \* the OnceLock's value: Nothing, or Some(event queue)
    init_pc,              \* each thread's position in its first instrumentation
    init_q,               \* the event queue the closure created in a thread
    handle,               \* the event queue each thread's stats_tx sends to
    queues,               \* event queues created so far (numbered 1..queues)
    stats_maps,           \* stats maps created so far
    collector_threads,    \* the queues a collector thread was spawned for
    server_threads,       \* metrics-server threads spawned so far
    qlen,                 \* events waiting in each queue
    logs_req,             \* the id text of the last log lookup, Nothing before the first
    logs_resp,            \* what that lookup returned: Some(Option<ChannelLogs>)
    lock,                 \* the stats map's RwLock: "free" or "write" (held by the collector)
    col_pc,               \* the collector's position within one loop iteration
    col_ev,               \* the event the collector has received and is applying
    snapshot,             \* the last clone of the map a reader took, Nothing before
    app,                  \* the console's App; requests: how many it sent, modulo 3
    srv                   \* what the metrics server answers now: version and number of rows

chanVars == <<to_inner, to_inner_closed, inner, inner_tx_dropped, inner_rx_dropped,
              from_inner, from_inner_tx_dropped, close_signal>>
fwdVars == <<sf_pc, sf_hand, rf_pc, rf_hand, message_sent, message_received>>
appVars == <<otx_dropped, orx_dropped, next_msg, accepted, send_errs, received, rx_eos>>
colVars == <<evq, stats, log_limit>>
onceVars == <<once, STATS_STATE, init_pc, init_q, handle, queues, stats_maps,
              collector_threads, server_threads, qlen>>
snapVars == <<lock, col_pc, col_ev, snapshot>>
conVars == <<app, srv>>
obsVars == <<logs_req, logs_resp, snapVars, conVars>>
libVars == <<collector_alive, next_id, produced, ct_in, ct_text, ct_out, onceVars, obsVars>>
vars == <<kind, capacity, chanVars, fwdVars, appVars, colVars, libVars>>

(***************************************************************************)
(* lib.rs: channel types, ChannelStats and the collector                   *)
(***************************************************************************)
Bounded(n) == [tag |-> "Bounded", cap |-> n]

Unbounded == [tag |-> "Unbounded", cap |-> 0]

Oneshot == [tag |-> "Oneshot", cap |-> 0]

\* Fault variant of saturating_sub: u64::wrapping_sub, shown on 16 bits.
saturating_sub_Wrapping(a, b) == (a - b) % 65536

\* u64::saturating_sub
saturating_sub(a, b) == IF a > b THEN a - b ELSE 0

queued(cs) == saturating_sub(saturating_sub(cs.sent_count, cs.received_count), 1)

ChannelStats_new(id, source, label, channel_type, iter) ==
    [id |-> id, source |-> source, label |-> label, channel_type |-> channel_type,
     state |-> "Active", sent_count |-> 0, received_count |-> 0,
     sent_logs |-> <<>>, received_logs |-> <<>>, iter |-> iter]

\* Fault variant of update_state: the early return on a terminal state is
\* missing.
update_state_NoTerminalCheck(cs) ==
    LET is_full == CASE cs.channel_type.tag = "Bounded" -> queued(cs) >= cs.channel_type.cap
                     [] cs.channel_type.tag = "Oneshot" -> queued(cs) >= 1
                     [] OTHER -> FALSE
    IN [cs EXCEPT !.state = IF is_full THEN "Full" ELSE "Active"]

\* Fault variant of update_state: Full is never left.
update_state_StickyFull(cs) ==
    IF cs.state = "Closed" \/ cs.state = "Notified" \/ cs.state = "Full" THEN cs
    ELSE LET is_full == CASE cs.channel_type.tag = "Bounded" -> queued(cs) >= cs.channel_type.cap
                          [] cs.channel_type.tag = "Oneshot" -> queued(cs) >= 1
                          [] OTHER -> FALSE
         IN [cs EXCEPT !.state = IF is_full THEN "Full" ELSE "Active"]

\* Fault variant of update_state: a bounded channel is Full only above its
\* capacity.
update_state_OffByOne(cs) ==
    IF cs.state \in {"Closed", "Notified"} THEN cs
    ELSE LET is_full == CASE cs.channel_type.tag = "Bounded" -> queued(cs) > cs.channel_type.cap
                          [] cs.channel_type.tag = "Oneshot" -> queued(cs) >= 1
                          [] OTHER -> FALSE
         IN [cs EXCEPT !.state = IF is_full THEN "Full" ELSE "Active"]

\* Fault variant of update_state: every channel type is Full with one
\* message queued.
update_state_AnyTypeFull(cs) ==
    IF cs.state = "Closed" \/ cs.state = "Notified" THEN cs
    ELSE LET is_full == CASE cs.channel_type.tag = "Bounded" -> queued(cs) >= cs.channel_type.cap
                          [] OTHER -> queued(cs) >= 1
         IN [cs EXCEPT !.state = IF is_full THEN "Full" ELSE "Active"]

update_state(cs) ==
    IF cs.state = "Closed" \/ cs.state = "Notified" THEN cs
    ELSE LET is_full == CASE cs.channel_type.tag = "Bounded" -> queued(cs) >= cs.channel_type.cap
                          [] cs.channel_type.tag = "Oneshot" -> queued(cs) >= 1
                          [] OTHER -> FALSE
         IN [cs EXCEPT !.state = IF is_full THEN "Full" ELSE "Active"]

\* if logs.len() >= limit { pop_front } ; push_back(index)
push_log(logs, index, limit) ==
    Append(IF Len(logs) >= limit /\ logs # <<>> THEN Tail(logs) ELSE logs, index)

CreatedEvent(id, source, label, channel_type) ==
    [type |-> "Created", id |-> id, source |-> source, label |-> label,
     channel_type |-> channel_type]

MessageSent(id) == [type |-> "MessageSent", id |-> id]

MessageReceived(id) == [type |-> "MessageReceived", id |-> id]

Closed(id) == [type |-> "Closed", id |-> id]

Notified(id) == [type |-> "Notified", id |-> id]

\* The body of the collector's match on one event, under the write lock.
ApplyEvent(st, e, limit) ==
    CASE e.type = "Created" ->
            LET iter == Cardinality({i \in DOMAIN st : st[i].source = e.source})
            IN [i \in DOMAIN st \cup {e.id} |->
                  IF i = e.id
                  THEN ChannelStats_new(e.id, e.source, e.label, e.channel_type, iter)
                  ELSE st[i]]
      [] e.type = "MessageSent" ->
            IF e.id \in DOMAIN st
            THEN LET c1 == update_state([st[e.id] EXCEPT !.sent_count = @ + 1])
                 IN [st EXCEPT ![e.id] =
                        [c1 EXCEPT !.sent_logs = push_log(@, c1.sent_count, limit)]]
            ELSE st
      [] e.type = "MessageReceived" ->
            IF e.id \in DOMAIN st
            THEN LET c1 == update_state([st[e.id] EXCEPT !.received_count = @ + 1])
                 IN [st EXCEPT ![e.id] =
                        [c1 EXCEPT !.received_logs = push_log(@, c1.received_count, limit)]]
            ELSE st
      [] e.type = "Closed" ->
            IF e.id \in DOMAIN st THEN [st EXCEPT ![e.id].state = "Closed"] ELSE st
      [] e.type = "Notified" ->
            IF e.id \in DOMAIN st THEN [st EXCEPT ![e.id].state = "Notified"] ELSE st

\* let _ = stats_tx.send(event) on the unbounded event queue: the send fails,
\* and the failure is ignored, once the collector's receiver is gone.  The
\* model lets a running collector fall at most MaxLag events behind.
Emit(e) ==
    IF collector_alive
    THEN /\ Len(evq) < MaxLag
         /\ evq' = Append(evq, e)
    ELSE evq' = evq

\* Fault variant of Collect: the MessageReceived handler increments
\* sent_count, as the handler it was copied from does.
Collect_ReceivedCountsSent ==
    /\ evq # <<>>
    /\ stats' = ApplyEvent(stats,
                           IF Head(evq).type = "MessageReceived"
                           THEN MessageSent(Head(evq).id) ELSE Head(evq),
                           log_limit)
    /\ evq' = Tail(evq)
    /\ UNCHANGED <<kind, capacity, chanVars, fwdVars, appVars, log_limit, libVars>>

\* Fault variant of Collect: a Closed event removes the channel's record.
Collect_ClosedRemoves ==
    /\ evq # <<>>
    /\ stats' = IF Head(evq).type = "Closed"
                THEN [i \in DOMAIN stats \ {Head(evq).id} |-> stats[i]]
                ELSE ApplyEvent(stats, Head(evq), log_limit)
    /\ evq' = Tail(evq)
    /\ UNCHANGED <<kind, capacity, chanVars, fwdVars, appVars, log_limit, libVars>>

\* Fault variant of Collect: an event for an id without a record creates one.
Collect_InsertsUnknown ==
    /\ evq # <<>>
    /\ stats' = IF Head(evq).type # "Created" /\ Head(evq).id \notin DOMAIN stats
                THEN ApplyEvent([i \in DOMAIN stats \cup {Head(evq).id} |->
                                    IF i \in DOMAIN stats THEN stats[i]
                                    ELSE ChannelStats_new(i, ChanSource, Nothing, Unbounded, 0)],
                                Head(evq), log_limit)
                ELSE ApplyEvent(stats, Head(evq), log_limit)
    /\ evq' = Tail(evq)
    /\ UNCHANGED <<kind, capacity, chanVars, fwdVars, appVars, log_limit, libVars>>

\* Fault variant of Collect: a record that is Closed or Notified is frozen.
Collect_FrozenAfterClose ==
    /\ evq # <<>>
    /\ stats' = IF /\ Head(evq).type \in {"MessageSent", "MessageReceived"}
                   /\ Head(evq).id \in DOMAIN stats
                   /\ stats[Head(evq).id].state \in {"Closed", "Notified"}
                THEN stats
                ELSE ApplyEvent(stats, Head(evq), log_limit)
    /\ evq' = Tail(evq)
    /\ UNCHANGED <<kind, capacity, chanVars, fwdVars, appVars, log_limit, libVars>>

\* Fault variant of Collect: the iter of a new record counts all the
\* channels created before, whatever their source.
Collect_IterCountsAll ==
    /\ evq # <<>>
    /\ stats' = IF Head(evq).type = "Created"
                THEN [i \in DOMAIN stats \cup {Head(evq).id} |->
                         IF i = Head(evq).id
                         THEN ChannelStats_new(i, Head(evq).source, Head(evq).label,
                                               Head(evq).channel_type,
                                               Cardinality(DOMAIN stats))
                         ELSE stats[i]]
                ELSE ApplyEvent(stats, Head(evq), log_limit)
    /\ evq' = Tail(evq)
    /\ UNCHANGED <<kind, capacity, chanVars, fwdVars, appVars, log_limit, libVars>>

\* Fault variant of Collect: the MessageReceived handler counts and logs
\* without recomputing the state.
Collect_ReceivedKeepsState ==
    /\ evq # <<>>
    /\ stats' = LET e == Head(evq)
                    next == ApplyEvent(stats, e, log_limit)
                IN IF e.type = "MessageReceived" /\ e.id \in DOMAIN stats
                   THEN [next EXCEPT ![e.id].state = stats[e.id].state]
                   ELSE next
    /\ evq' = Tail(evq)
    /\ UNCHANGED <<kind, capacity, chanVars, fwdVars, appVars, log_limit, libVars>>

\* One iteration of the collector thread's `while let Ok(event) = rx.recv()`.
Collect ==
    /\ evq # <<>>
    /\ stats' = ApplyEvent(stats, Head(evq), log_limit)
    /\ evq' = Tail(evq)
    /\ UNCHANGED <<kind, capacity, chanVars, fwdVars, appVars, log_limit, libVars>>

(***************************************************************************)
(* lib.rs: strings, labels, the logs view, ChannelType as text             *)
(***************************************************************************)
\* The i-th character of a string, as a string of length one.
Char(s, i) == SubSeq(s, i, i)

Max(S) == CHOOSE x \in S : \A y \in S : y <= x

\* str::rfind(c): the position of the last c, None when there is none.
rfind(s, c) ==
    LET hits == {i \in 1..Len(s) : Char(s, i) = c}
    IN IF hits = {} THEN None ELSE Max(hits)

Digits == "0123456789"

\* Display of an unsigned integer ("{}")
RECURSIVE to_string(_)
to_string(n) ==
    IF n < 10 THEN Char(Digits, n + 1)
    ELSE to_string(n \div 10) \o Char(Digits, (n % 10) + 1)

\* path.split('/'): the last two components joined by '/', the path itself
\* when it has one component only.
extract_filename(path) ==
    LET slashes == {i \in 1..Len(path) : Char(path, i) = "/"}
    IN IF slashes = {} THEN path
       ELSE LET last == Max(slashes)
                before == {i \in slashes : i < last}
                start == IF before = {} THEN 1 ELSE Max(before) + 1
            IN SubSeq(path, start, Len(path))

\* Fault variant of resolve_label: the suffix is the iter itself.
resolve_label_IterSuffix(id, provided, iter) ==
    LET pos == rfind(id, ":")
        base_label ==
            IF provided # Nothing THEN provided[1]
            ELSE IF pos # None
                 THEN extract_filename(SubSeq(id, 1, pos - 1)) \o ":" \o
                      SubSeq(id, pos + 1, Len(id))
                 ELSE extract_filename(id)
    IN IF iter > 0 THEN base_label \o "-" \o to_string(iter) ELSE base_label

resolve_label(id, provided, iter) ==
    LET pos == rfind(id, ":")
        base_label ==
            IF provided # Nothing THEN provided[1]
            ELSE IF pos # None
                 THEN extract_filename(SubSeq(id, 1, pos - 1)) \o ":" \o
                      SubSeq(id, pos + 1, Len(id))
                 ELSE extract_filename(id)
    IN IF iter > 0 THEN base_label \o "-" \o to_string(iter + 1) ELSE base_label

\* SerializableChannelStats::from: the fields of a record as they are shown.
SerializableChannelStats(cs) ==
    [id |-> cs.id, source |-> cs.source,
     label |-> resolve_label(cs.source, cs.label, cs.iter),
     has_custom_label |-> cs.label # Nothing,
     channel_type |-> cs.channel_type, state |-> cs.state,
     sent_count |-> cs.sent_count, received_count |-> cs.received_count,
     queued |-> queued(cs), iter |-> cs.iter]

\* Vec::sort_by(|a, b| b.index.cmp(&a.index)): a stable insertion of each
\* entry behind the entries that are not smaller.
RECURSIVE sort_desc(_)
sort_desc(logs) ==
    IF logs = <<>> THEN <<>>
    ELSE LET rest == sort_desc(SubSeq(logs, 1, Len(logs) - 1))
             x == logs[Len(logs)]
             k == Cardinality({i \in 1..Len(rest) : rest[i] >= x})
         IN SubSeq(rest, 1, k) \o <<x>> \o SubSeq(rest, k + 1, Len(rest))

\* Fault variant of get_channel_logs: the logs are returned as stored.
get_channel_logs_Unsorted(st, id) ==
    IF id \in DOMAIN st
    THEN Some([id |-> id, sent_logs |-> st[id].sent_logs,
               received_logs |-> st[id].received_logs])
    ELSE Nothing

\* get_channel_logs for a channel id already parsed: Option<ChannelLogs>
get_channel_logs(st, id) ==
    IF id \in DOMAIN st
    THEN Some([id |-> id, sent_logs |-> sort_desc(st[id].sent_logs),
               received_logs |-> sort_desc(st[id].received_logs)])
    ELSE Nothing

\* The characters of the labels and source locations, in byte order.
Alphabet == "-./0123456789:ABCDEFGHIJKLMNOPQRSTUVWXYZ_abcdefghijklmnopqrstuvwxyz"

\* The rank of a character in byte order.
byte(c) == CHOOSE i \in 1..Len(Alphabet) : Char(Alphabet, i) = c

\* Ord::cmp on integers.
int_cmp(a, b) == IF a < b THEN "Less" ELSE IF a > b THEN "Greater" ELSE "Equal"

\* Ord::cmp on str: lexicographic on the bytes, a proper prefix is Less.
RECURSIVE str_cmp(_, _)
str_cmp(a, b) ==
    IF a = "" /\ b = "" THEN "Equal"
    ELSE IF a = "" THEN "Less"
    ELSE IF b = "" THEN "Greater"
    ELSE IF Char(a, 1) # Char(b, 1) THEN int_cmp(byte(Char(a, 1)), byte(Char(b, 1)))
    ELSE str_cmp(Tail(a), Tail(b))

\* Ordering::then_with
then_with(first, second) == IF first = "Equal" THEN second ELSE first

\* compare_channel_stats: labelled records first, then by label or source,
\* then by iter.
compare_channel_stats(a, b) ==
    CASE a.label # Nothing /\ b.label = Nothing -> "Less"
      [] a.label = Nothing /\ b.label # Nothing -> "Greater"
      [] a.label # Nothing /\ b.label # Nothing ->
            then_with(str_cmp(a.label[1], b.label[1]), int_cmp(a.iter, b.iter))
      [] OTHER ->
            then_with(str_cmp(a.source, b.source), int_cmp(a.iter, b.iter))

\* get_sorted_channel_stats: the values of the map, collected in the map's
\* iteration order (any order of the keys) and sorted by a stable sort.  The
\* results it can return are the arrangements of the records in which no
\* record stands before one it is Greater than.
get_sorted_channel_stats(st) ==
    LET n == Cardinality(DOMAIN st)
        orders == {q \in [1..n -> DOMAIN st] : \A i, j \in 1..n : i # j => q[i] # q[j]}
    IN {[k \in 1..n |-> st[q[k]]] : q \in
           {q \in orders :
               \A i, j \in 1..n :
                  i < j => compare_channel_stats(st[q[i]], st[q[j]]) # "Greater"}}

\* Fault variant of ChannelType_fmt: the closing bracket is missing.
ChannelType_fmt_NoBracket(t) ==
    CASE t.tag = "Bounded" -> "bounded[" \o to_string(t.cap)
      [] t.tag = "Unbounded" -> "unbounded"
      [] t.tag = "Oneshot" -> "oneshot"

\* impl Display for ChannelType, which Serialize writes as a string
ChannelType_fmt(t) ==
    CASE t.tag = "Bounded" -> "bounded[" \o to_string(t.cap) \o "]"
      [] t.tag = "Unbounded" -> "unbounded"
      [] t.tag = "Oneshot" -> "oneshot"

\* str::strip_prefix / strip_suffix: Option<&str>
strip_prefix(s, p) ==
    IF Len(s) >= Len(p) /\ SubSeq(s, 1, Len(p)) = p
    THEN Some(SubSeq(s, Len(p) + 1, Len(s))) ELSE Nothing

strip_suffix(s, p) ==
    IF Len(s) >= Len(p) /\ SubSeq(s, Len(s) - Len(p) + 1, Len(s)) = p
    THEN Some(SubSeq(s, 1, Len(s) - Len(p))) ELSE Nothing

DigitValue(c) == CHOOSE d \in 0..9 : Char(Digits, d + 1) = c

IsDigit(c) == \E d \in 0..9 : Char(Digits, d + 1) = c

\* The digits of str::parse::<usize>, most significant first: -1 on a
\* character that is no digit.  The sizes that occur stay far below
\* usize::MAX, so the overflow error is not modelled.
RECURSIVE parse_digits(_, _)
parse_digits(s, acc) ==
    IF s = "" THEN acc
    ELSE IF ~IsDigit(Head(s)) THEN -1
    ELSE parse_digits(Tail(s), acc * 10 + DigitValue(Head(s)))

\* str::parse::<usize>: an optional '+', then at least one digit; -1 for Err
parse_usize(s) ==
    LET body == IF s # "" /\ Head(s) = "+" THEN Tail(s) ELSE s
    IN IF body = "" THEN -1 ELSE parse_digits(body, 0)

\* str::parse::<u64>: an optional '+', then at least one digit; -1 for Err.
\* The id texts that occur are short, so the overflow error is not modelled.
parse_u64(s) ==
    LET body == IF s # "" /\ Head(s) = "+" THEN Tail(s) ELSE s
    IN IF body = "" THEN -1 ELSE parse_digits(body, 0)

\* Fault variant of get_channel_logs_text: a channel that is no longer open
\* has no logs to show.
get_channel_logs_text_OpenOnly(st, channel_id) ==
    LET id == parse_u64(channel_id)
    IN IF id = -1 THEN Nothing
       ELSE IF id \in DOMAIN st /\ st[id].state \in {"Closed", "Notified"} THEN Nothing
       ELSE LET found == get_channel_logs(st, id)
            IN IF found = Nothing THEN Nothing
               ELSE Some([found[1] EXCEPT !.id = channel_id])

\* get_channel_logs on the id text of the request: the text is parsed, the
\* record looked up in a clone of the map, and the text echoed in the result.
get_channel_logs_text(st, channel_id) ==
    LET id == parse_u64(channel_id)
    IN IF id = -1 THEN Nothing
       ELSE LET found == get_channel_logs(st, id)
            IN IF found = Nothing THEN Nothing
               ELSE Some([found[1] EXCEPT !.id = channel_id])

Err(msg) == [tag |-> "Err", msg |-> msg]

\* impl Deserialize for ChannelType, on the string read
ChannelType_deserialize(s) ==
    IF s = "unbounded" THEN Unbounded
    ELSE IF s = "oneshot" THEN Oneshot
    ELSE LET pre == strip_prefix(s, "bounded[")
             inner_text == IF pre = Nothing THEN Nothing ELSE strip_suffix(pre[1], "]")
         IN IF inner_text # Nothing
            THEN LET size == parse_usize(inner_text[1])
                 IN IF size < 0 THEN Err("invalid bounded size") ELSE Bounded(size)
            ELSE Err("invalid channel type")

(***************************************************************************)
(* wrappers.rs: construction                                               *)
(***************************************************************************)
Spawned ==
    /\ sf_pc' = "select"
    /\ rf_pc' = "select"
    /\ UNCHANGED <<sf_hand, rf_hand, message_sent, message_received>>

\* Fault variant of wrap_channel: the forwarders are spawned and the Created
\* event is not sent.
wrap_channel_NoCreated(c) ==
    /\ kind = "none"
    /\ kind' = "bounded"
    /\ capacity' = c
    /\ Spawned
    /\ UNCHANGED <<chanVars, appVars, colVars, libVars>>

wrap_channel(c) ==
    /\ kind = "none"
    /\ kind' = "bounded"
    /\ capacity' = c
    /\ Emit(CreatedEvent(ChanId, ChanSource, Nothing, Bounded(c)))
    /\ Spawned
    /\ UNCHANGED <<chanVars, appVars, stats, log_limit, libVars>>

wrap_unbounded ==
    /\ kind = "none"
    /\ kind' = "unbounded"
    /\ Emit(CreatedEvent(ChanId, ChanSource, Nothing, Unbounded))
    /\ Spawned
    /\ UNCHANGED <<capacity, chanVars, appVars, stats, log_limit, libVars>>

wrap_oneshot ==
    /\ kind = "none"
    /\ kind' = "oneshot"
    /\ Emit(CreatedEvent(ChanId, ChanSource, Nothing, Oneshot))
    /\ Spawned
    /\ UNCHANGED <<capacity, chanVars, appVars, stats, log_limit, libVars>>

IsMpsc == kind \in {"bounded", "unbounded"}

\* Fault variant of HasRoom: a bounded channel takes one message more than
\* its capacity.
HasRoom_OneMore(q) == kind = "unbounded" \/ Len(q) <= capacity

\* A bounded tokio channel has a free permit; an unbounded one always has.
HasRoom(q) == kind = "unbounded" \/ Len(q) < capacity

\* No channel is instrumented yet.
NotInstrumented ==
    /\ kind = "none"
    /\ capacity = 0
    /\ to_inner = <<>> /\ to_inner_closed = FALSE
    /\ inner = <<>> /\ inner_tx_dropped = FALSE /\ inner_rx_dropped = FALSE
    /\ from_inner = <<>> /\ from_inner_tx_dropped = FALSE
    /\ close_signal = "pending"
    /\ sf_pc = "unspawned" /\ sf_hand = None
    /\ rf_pc = "unspawned" /\ rf_hand = None
    /\ message_sent = FALSE /\ message_received = FALSE
    /\ otx_dropped = FALSE /\ orx_dropped = FALSE
    /\ next_msg = 0 /\ accepted = <<>> /\ send_errs = 0
    /\ received = <<>> /\ rx_eos = FALSE

\* Threads that instrument their first channel at the same time.
MaxThreads == 3

Threads == 1..MaxThreads

\* ConsoleArgs::run: the App as it is constructed.  Of the stats shown the
\* model keeps the version of the server's answer and the number of rows.
App_new ==
    [stats |-> [version |-> 0, len |-> 0],
     error |-> FALSE,
     exit |-> FALSE,
     table_selected |-> Some(0),
     logs_selected |-> Nothing,
     focus |-> "Channels",
     show_logs |-> FALSE,
     logs |-> Nothing,
     paused |-> FALSE,
     inspected_log |-> Nothing,
     running |-> FALSE,
     requests |-> 0]

\* No reader has asked for anything yet.
Unobserved ==
    /\ logs_req = Nothing
    /\ logs_resp = Nothing
    /\ lock = "free"
    /\ col_pc = "recv"
    /\ col_ev = Nothing
    /\ snapshot = Nothing
    /\ app = App_new
    /\ srv = [version |-> 1, len |-> 1]

\* init_stats_state has returned before: STATS_STATE holds the one event
\* queue, and no thread is inside its first instrumentation.
StatsStateReady ==
    /\ once = "complete"
    /\ STATS_STATE = Some(1)
    /\ init_pc = [t \in Threads |-> "start"]
    /\ init_q = [t \in Threads |-> 0]
    /\ handle = [t \in Threads |-> 0]
    /\ queues = 1 /\ stats_maps = 1
    /\ collector_threads = {1}
    /\ server_threads = 1
    /\ qlen = [q \in Threads |-> 0]

\* STATS_STATE right after init_stats_state: an empty queue, an empty map, the
\* collector thread running.
StatsStarted ==
    /\ evq = <<>>
    /\ stats = <<>>
    /\ collector_alive = TRUE
    /\ next_id = 0
    /\ produced = 0

Init ==
    /\ NotInstrumented
    /\ StatsStarted
    /\ log_limit = DEFAULT_LOG_LIMIT
    /\ ct_in = Nothing /\ ct_text = Nothing /\ ct_out = Nothing
    /\ StatsStateReady
    /\ Unobserved

(***************************************************************************)
(* wrappers.rs: wrap_channel / wrap_unbounded, send-forwarder              *)
(* (outer -> inner).  The two functions differ only in the kind of the     *)
(* three channels, which HasRoom captures.                                 *)
(***************************************************************************)
\* select!: msg = to_inner_rx.recv(), Some(msg)
SfRecvSome ==
    /\ IsMpsc /\ sf_pc = "select"
    /\ to_inner # <<>>
    /\ sf_hand' = Head(to_inner)
    /\ to_inner' = Tail(to_inner)
    /\ sf_pc' = "send"
    /\ UNCHANGED <<kind, capacity, to_inner_closed, inner, inner_tx_dropped, inner_rx_dropped,
                   from_inner, from_inner_tx_dropped, close_signal,
                   rf_pc, rf_hand, message_sent, message_received, appVars, colVars, libVars>>

\* Fault variant of SfRecvNone: the loop is left as soon as the outer sender
\* is gone, with messages still queued in to_inner.
SfRecvNone_NoDrain ==
    /\ IsMpsc /\ sf_pc = "select"
    /\ otx_dropped
    /\ sf_pc' = "exit"
    /\ UNCHANGED <<kind, capacity, chanVars, sf_hand, rf_pc, rf_hand,
                   message_sent, message_received, appVars, colVars, libVars>>

\* select!: msg = to_inner_rx.recv(), None => break (outer sender dropped)
SfRecvNone ==
    /\ IsMpsc /\ sf_pc = "select"
    /\ to_inner = <<>> /\ otx_dropped
    /\ sf_pc' = "exit"
    /\ UNCHANGED <<kind, capacity, chanVars, sf_hand, rf_pc, rf_hand,
                   message_sent, message_received, appVars, colVars, libVars>>

\* select!: _ = &mut close_signal_rx (a value, or close_signal_tx dropped):
\* to_inner_rx.close(); break
SfCloseSignal ==
    /\ IsMpsc /\ sf_pc = "select"
    /\ close_signal # "pending"
    /\ to_inner_closed' = TRUE
    /\ sf_pc' = "exit"
    /\ UNCHANGED <<kind, capacity, to_inner, inner, inner_tx_dropped, inner_rx_dropped,
                   from_inner, from_inner_tx_dropped, close_signal, sf_hand,
                   rf_pc, rf_hand, message_sent, message_received, appVars, colVars, libVars>>

\* Fault variant of SfInnerSend: the send waits for room only and misses
\* that inner_rx is gone.
SfInnerSend_IgnoresClosed ==
    /\ IsMpsc /\ sf_pc = "send"
    /\ ~inner_rx_dropped
    /\ HasRoom(inner)
    /\ inner' = Append(inner, sf_hand)
    /\ sf_pc' = "emit"
    /\ sf_hand' = None
    /\ UNCHANGED <<kind, capacity, to_inner, to_inner_closed, inner_tx_dropped,
                   inner_rx_dropped, from_inner, from_inner_tx_dropped, close_signal,
                   rf_pc, rf_hand, message_sent, message_received, appVars, colVars, libVars>>

\* inner_tx.send(msg): Err when inner_rx is gone (close to_inner_rx, break),
\* pending while the bounded inner channel is full, Ok otherwise.
SfInnerSend ==
    /\ IsMpsc /\ sf_pc = "send"
    /\ IF inner_rx_dropped
       THEN /\ to_inner_closed' = TRUE
            /\ sf_pc' = "exit"
            /\ UNCHANGED inner
       ELSE /\ HasRoom(inner)
            /\ inner' = Append(inner, sf_hand)
            /\ sf_pc' = "emit"
            /\ UNCHANGED to_inner_closed
    /\ sf_hand' = None
    /\ UNCHANGED <<kind, capacity, to_inner, inner_tx_dropped, inner_rx_dropped,
                   from_inner, from_inner_tx_dropped, close_signal,
                   rf_pc, rf_hand, message_sent, message_received, appVars, colVars, libVars>>

\* Fault variant of SfEmitSent: the loop is left when the event cannot be sent.
SfEmitSent_BreakOnError ==
    /\ IsMpsc /\ sf_pc = "emit"
    /\ Emit(MessageSent(ChanId))
    /\ sf_pc' = IF collector_alive THEN "select" ELSE "exit"
    /\ UNCHANGED <<kind, capacity, chanVars, sf_hand, rf_pc, rf_hand,
                   message_sent, message_received, appVars, stats, log_limit, libVars>>

\* Fault variant of SfEmitSent: the send-forwarder returns to the select
\* without the emission.
SfEmitSent_Skipped ==
    /\ IsMpsc /\ sf_pc = "emit"
    /\ sf_pc' = "select"
    /\ UNCHANGED <<kind, capacity, chanVars, sf_hand, rf_pc, rf_hand,
                   message_sent, message_received, appVars, colVars, libVars>>

\* stats_tx_send.send(StatsEvent::MessageSent), back to the select
SfEmitSent ==
    /\ IsMpsc /\ sf_pc = "emit"
    /\ Emit(MessageSent(ChanId))
    /\ sf_pc' = "select"
    /\ UNCHANGED <<kind, capacity, chanVars, sf_hand, rf_pc, rf_hand,
                   message_sent, message_received, appVars, stats, log_limit, libVars>>

\* Fault variant of SfEmitClosed: the send-forwarder stays where it is after
\* the emission, so that it can emit Closed again.
SfEmitClosed_Repeats ==
    /\ IsMpsc /\ sf_pc = "exit"
    /\ Emit(Closed(ChanId))
    /\ UNCHANGED <<kind, capacity, chanVars, sf_pc, sf_hand, rf_pc, rf_hand,
                   message_sent, message_received, appVars, stats, log_limit, libVars>>

\* after the loop: stats_tx_send.send(StatsEvent::Closed)
SfEmitClosed ==
    /\ IsMpsc /\ sf_pc = "exit"
    /\ Emit(Closed(ChanId))
    /\ sf_pc' = "drop"
    /\ UNCHANGED <<kind, capacity, chanVars, sf_hand, rf_pc, rf_hand,
                   message_sent, message_received, appVars, stats, log_limit, libVars>>

\* Fault variant of SfDrop: inner_tx outlives the task.
SfDrop_LeakInnerTx ==
    /\ IsMpsc /\ sf_pc = "drop"
    /\ to_inner' = <<>>
    /\ to_inner_closed' = TRUE
    /\ sf_pc' = "done"
    /\ UNCHANGED <<kind, capacity, inner, inner_tx_dropped, inner_rx_dropped, from_inner,
                   from_inner_tx_dropped, close_signal, sf_hand, rf_pc, rf_hand,
                   message_sent, message_received, appVars, colVars, libVars>>

\* the task ends: to_inner_rx (with what it still queues), inner_tx and
\* close_signal_rx are dropped
SfDrop ==
    /\ IsMpsc /\ sf_pc = "drop"
    /\ to_inner' = <<>>
    /\ to_inner_closed' = TRUE
    /\ inner_tx_dropped' = TRUE
    /\ sf_pc' = "done"
    /\ UNCHANGED <<kind, capacity, inner, inner_rx_dropped, from_inner,
                   from_inner_tx_dropped, close_signal, sf_hand, rf_pc, rf_hand,
                   message_sent, message_received, appVars, colVars, libVars>>

SendForwarder ==
    \/ SfRecvSome
    \/ SfRecvNone
    \/ SfCloseSignal
    \/ SfInnerSend
    \/ SfEmitSent
    \/ SfEmitClosed
    \/ SfDrop

(***************************************************************************)
(* wrappers.rs: wrap_channel / wrap_unbounded, recv-forwarder              *)
(* (inner -> outer)                                                        *)
(***************************************************************************)
\* close_signal_tx.send(()): the result is ignored
SignalClose == close_signal' = IF close_signal = "pending" THEN "sent" ELSE close_signal

\* select!: msg = inner_rx.recv(), Some(msg)
RfRecvSome ==
    /\ IsMpsc /\ rf_pc = "select"
    /\ inner # <<>>
    /\ rf_hand' = Head(inner)
    /\ inner' = Tail(inner)
    /\ rf_pc' = "send"
    /\ UNCHANGED <<kind, capacity, to_inner, to_inner_closed, inner_tx_dropped,
                   inner_rx_dropped, from_inner, from_inner_tx_dropped, close_signal,
                   sf_pc, sf_hand, message_sent, message_received, appVars, colVars, libVars>>

\* select!: msg = inner_rx.recv(), None => break (inner sender dropped)
RfRecvNone ==
    /\ IsMpsc /\ rf_pc = "select"
    /\ inner = <<>> /\ inner_tx_dropped
    /\ rf_pc' = "exit"
    /\ UNCHANGED <<kind, capacity, chanVars, sf_pc, sf_hand, rf_hand,
                   message_sent, message_received, appVars, colVars, libVars>>

\* select!: _ = from_inner_tx.closed(): signal the send-forwarder, break
RfOuterClosed ==
    /\ IsMpsc /\ rf_pc = "select"
    /\ orx_dropped
    /\ SignalClose
    /\ rf_pc' = "exit"
    /\ UNCHANGED <<kind, capacity, to_inner, to_inner_closed, inner, inner_tx_dropped,
                   inner_rx_dropped, from_inner, from_inner_tx_dropped,
                   sf_pc, sf_hand, rf_hand, message_sent, message_received,
                   appVars, colVars, libVars>>

\* Fault variant of RfOuterSend: the message is put at the head of from_inner.
RfOuterSend_Front ==
    /\ IsMpsc /\ rf_pc = "send"
    /\ IF orx_dropped
       THEN /\ SignalClose
            /\ rf_pc' = "exit"
            /\ UNCHANGED from_inner
       ELSE /\ HasRoom(from_inner)
            /\ from_inner' = <<rf_hand>> \o from_inner
            /\ rf_pc' = "emit"
            /\ UNCHANGED close_signal
    /\ rf_hand' = None
    /\ UNCHANGED <<kind, capacity, to_inner, to_inner_closed, inner, inner_tx_dropped,
                   inner_rx_dropped, from_inner_tx_dropped, sf_pc, sf_hand,
                   message_sent, message_received, appVars, colVars, libVars>>

\* from_inner_tx.send(msg): Err when outer_rx is gone (signal, break),
\* pending while the bounded from_inner channel is full, Ok otherwise.
RfOuterSend ==
    /\ IsMpsc /\ rf_pc = "send"
    /\ IF orx_dropped
       THEN /\ SignalClose
            /\ rf_pc' = "exit"
            /\ UNCHANGED from_inner
       ELSE /\ HasRoom(from_inner)
            /\ from_inner' = Append(from_inner, rf_hand)
            /\ rf_pc' = "emit"
            /\ UNCHANGED close_signal
    /\ rf_hand' = None
    /\ UNCHANGED <<kind, capacity, to_inner, to_inner_closed, inner, inner_tx_dropped,
                   inner_rx_dropped, from_inner_tx_dropped, sf_pc, sf_hand,
                   message_sent, message_received, appVars, colVars, libVars>>

\* Fault variant of RfEmitReceived: the event is not emitted.
RfEmitReceived_Missing ==
    /\ IsMpsc /\ rf_pc = "emit"
    /\ rf_pc' = "select"
    /\ UNCHANGED <<kind, capacity, chanVars, sf_pc, sf_hand, rf_hand,
                   message_sent, message_received, appVars, colVars, libVars>>

\* stats_tx_recv.send(StatsEvent::MessageReceived), back to the select
RfEmitReceived ==
    /\ IsMpsc /\ rf_pc = "emit"
    /\ Emit(MessageReceived(ChanId))
    /\ rf_pc' = "select"
    /\ UNCHANGED <<kind, capacity, chanVars, sf_pc, sf_hand, rf_hand,
                   message_sent, message_received, appVars, stats, log_limit, libVars>>

\* after the loop: stats_tx_recv.send(StatsEvent::Closed)
RfEmitClosed ==
    /\ IsMpsc /\ rf_pc = "exit"
    /\ Emit(Closed(ChanId))
    /\ rf_pc' = "drop"
    /\ UNCHANGED <<kind, capacity, chanVars, sf_pc, sf_hand, rf_hand,
                   message_sent, message_received, appVars, stats, log_limit, libVars>>

\* the task ends: inner_rx (with what it still queues), from_inner_tx and
\* close_signal_tx are dropped
RfDrop ==
    /\ IsMpsc /\ rf_pc = "drop"
    /\ inner' = <<>>
    /\ inner_rx_dropped' = TRUE
    /\ from_inner_tx_dropped' = TRUE
    /\ close_signal' = IF close_signal = "pending" THEN "dropped" ELSE close_signal
    /\ rf_pc' = "done"
    /\ UNCHANGED <<kind, capacity, to_inner, to_inner_closed, inner_tx_dropped,
                   from_inner, sf_pc, sf_hand, rf_hand, message_sent,
                   message_received, appVars, colVars, libVars>>

RecvForwarder ==
    \/ RfRecvSome
    \/ RfRecvNone
    \/ RfOuterClosed
    \/ RfOuterSend
    \/ RfEmitReceived
    \/ RfEmitClosed
    \/ RfDrop

(***************************************************************************)
(* The application's use of the outer ends (tokio mpsc / oneshot)          *)
(***************************************************************************)
\* outer_tx.send(v): Err(v) when the receiving half is closed or dropped,
\* pending while a bounded to_inner is full, Ok otherwise.  A one-shot
\* sender is consumed by the call.
OuterSendWithin(limit) ==
    /\ kind # "none" /\ ~otx_dropped
    /\ next_msg < limit
    /\ next_msg' = next_msg + 1
    /\ IF to_inner_closed
       THEN /\ send_errs' = send_errs + 1
            /\ UNCHANGED <<to_inner, accepted>>
       ELSE /\ kind = "oneshot" \/ HasRoom(to_inner)
            /\ to_inner' = Append(to_inner, next_msg + 1)
            /\ accepted' = Append(accepted, next_msg + 1)
            /\ UNCHANGED send_errs
    /\ otx_dropped' = (kind = "oneshot")
    /\ UNCHANGED <<kind, capacity, to_inner_closed, inner, inner_tx_dropped,
                   inner_rx_dropped, from_inner, from_inner_tx_dropped, close_signal,
                   fwdVars, orx_dropped, received, rx_eos, colVars, libVars>>

\* The application makes at most MaxMsgs send attempts.
OuterSend == OuterSendWithin(MaxMsgs)

\* drop(outer_tx)
DropOuterTx ==
    /\ kind # "none" /\ ~otx_dropped
    /\ otx_dropped' = TRUE
    /\ UNCHANGED <<kind, capacity, chanVars, fwdVars, orx_dropped, next_msg, accepted,
                   send_errs, received, rx_eos, colVars, libVars>>

\* outer_rx.recv() / outer_rx.await: a value when one is queued, end-of-stream
\* (None / RecvError) when nothing is queued and the sending half is gone.
\* A one-shot receiver is consumed by the await that completes.
OuterRecv ==
    /\ kind # "none" /\ ~orx_dropped /\ ~rx_eos
    /\ kind = "oneshot" => received = <<>>
    /\ IF from_inner # <<>>
       THEN /\ received' = Append(received, Head(from_inner))
            /\ from_inner' = Tail(from_inner)
            /\ UNCHANGED rx_eos
       ELSE /\ from_inner_tx_dropped
            /\ rx_eos' = TRUE
            /\ UNCHANGED <<received, from_inner>>
    /\ UNCHANGED <<kind, capacity, to_inner, to_inner_closed, inner, inner_tx_dropped,
                   inner_rx_dropped, from_inner_tx_dropped, close_signal, fwdVars,
                   otx_dropped, orx_dropped, next_msg, accepted, send_errs, colVars, libVars>>

\* drop(outer_rx): the channel is closed and what it queues is dropped
DropOuterRx ==
    /\ kind # "none" /\ ~orx_dropped
    /\ orx_dropped' = TRUE
    /\ from_inner' = <<>>
    /\ UNCHANGED <<kind, capacity, to_inner, to_inner_closed, inner, inner_tx_dropped,
                   inner_rx_dropped, from_inner_tx_dropped, close_signal, fwdVars,
                   otx_dropped, next_msg, accepted, send_errs, received, rx_eos, colVars, libVars>>

(***************************************************************************)
(* wrappers.rs: wrap_oneshot, recv-forwarder (the first task spawned)      *)
(***************************************************************************)
\* select!: msg = inner_rx.await, Ok(msg); the receiver is consumed
OsRfRecvOk ==
    /\ kind = "oneshot" /\ rf_pc = "select"
    /\ inner # <<>>
    /\ rf_hand' = Head(inner)
    /\ inner' = Tail(inner)
    /\ inner_rx_dropped' = TRUE
    /\ rf_pc' = "send"
    /\ UNCHANGED <<kind, capacity, to_inner, to_inner_closed, inner_tx_dropped,
                   from_inner, from_inner_tx_dropped, close_signal,
                   sf_pc, sf_hand, message_sent, message_received, appVars, colVars, libVars>>

\* Fault variant of OsRfRecvErr: the branch matches Ok(msg) only, so an Err
\* disables it and the select keeps waiting on inner_tx_proxy.closed().
OsRfRecvErr_Disabled ==
    /\ kind = "oneshot" /\ rf_pc = "select"
    /\ inner = <<>> /\ inner_tx_dropped /\ ~inner_rx_dropped
    /\ inner_rx_dropped' = TRUE
    /\ UNCHANGED <<kind, capacity, to_inner, to_inner_closed, inner, inner_tx_dropped,
                   from_inner, from_inner_tx_dropped, close_signal,
                   sf_pc, sf_hand, rf_pc, rf_hand, message_sent, message_received,
                   appVars, colVars, libVars>>

\* select!: msg = inner_rx.await, Err(_): inner sender dropped without sending
OsRfRecvErr ==
    /\ kind = "oneshot" /\ rf_pc = "select"
    /\ inner = <<>> /\ inner_tx_dropped /\ ~inner_rx_dropped
    /\ inner_rx_dropped' = TRUE
    /\ rf_pc' = "exit"
    /\ UNCHANGED <<kind, capacity, to_inner, to_inner_closed, inner, inner_tx_dropped,
                   from_inner, from_inner_tx_dropped, close_signal,
                   sf_pc, sf_hand, rf_hand, message_sent, message_received,
                   appVars, colVars, libVars>>

\* select!: _ = inner_tx_proxy.closed(): drop(inner_rx), with a value that
\* reached it in the meantime
OsRfOuterClosed ==
    /\ kind = "oneshot" /\ rf_pc = "select"
    /\ orx_dropped
    /\ inner_rx_dropped' = TRUE
    /\ inner' = <<>>
    /\ rf_pc' = "signal"
    /\ UNCHANGED <<kind, capacity, to_inner, to_inner_closed, inner_tx_dropped,
                   from_inner, from_inner_tx_dropped, close_signal,
                   sf_pc, sf_hand, rf_hand, message_sent, message_received,
                   appVars, colVars, libVars>>

\* let _ = close_signal_tx.send(())
OsRfSignal ==
    /\ kind = "oneshot" /\ rf_pc = "signal"
    /\ SignalClose
    /\ rf_pc' = "exit"
    /\ UNCHANGED <<kind, capacity, to_inner, to_inner_closed, inner, inner_tx_dropped,
                   inner_rx_dropped, from_inner, from_inner_tx_dropped,
                   sf_pc, sf_hand, rf_hand, message_sent, message_received,
                   appVars, colVars, libVars>>

\* inner_tx_proxy.send(msg): Err(msg) when outer_rx is gone, Ok otherwise;
\* the sender is consumed
OsRfProxySend ==
    /\ kind = "oneshot" /\ rf_pc = "send"
    /\ IF orx_dropped
       THEN /\ rf_pc' = "exit"
            /\ UNCHANGED from_inner
       ELSE /\ from_inner' = Append(from_inner, rf_hand)
            /\ rf_pc' = "emit"
    /\ from_inner_tx_dropped' = TRUE
    /\ rf_hand' = None
    /\ UNCHANGED <<kind, capacity, to_inner, to_inner_closed, inner, inner_tx_dropped,
                   inner_rx_dropped, close_signal, sf_pc, sf_hand,
                   message_sent, message_received, appVars, colVars, libVars>>

\* stats_tx_recv.send(StatsEvent::MessageReceived); message_received = true
OsRfEmitReceived ==
    /\ kind = "oneshot" /\ rf_pc = "emit"
    /\ Emit(MessageReceived(ChanId))
    /\ message_received' = TRUE
    /\ rf_pc' = "exit"
    /\ UNCHANGED <<kind, capacity, chanVars, sf_pc, sf_hand, rf_hand,
                   message_sent, appVars, stats, log_limit, libVars>>

\* if !message_received { stats_tx_recv.send(StatsEvent::Closed) }
OsRfEmitClosed ==
    /\ kind = "oneshot" /\ rf_pc = "exit"
    /\ IF ~message_received THEN Emit(Closed(ChanId)) ELSE UNCHANGED evq
    /\ rf_pc' = "drop"
    /\ UNCHANGED <<kind, capacity, chanVars, sf_pc, sf_hand, rf_hand,
                   message_sent, message_received, appVars, stats, log_limit, libVars>>

\* the task ends: inner_tx_proxy and close_signal_tx are dropped if unused
OsRfDrop ==
    /\ kind = "oneshot" /\ rf_pc = "drop"
    /\ from_inner_tx_dropped' = TRUE
    /\ close_signal' = IF close_signal = "pending" THEN "dropped" ELSE close_signal
    /\ rf_pc' = "done"
    /\ UNCHANGED <<kind, capacity, to_inner, to_inner_closed, inner, inner_tx_dropped,
                   inner_rx_dropped, from_inner, sf_pc, sf_hand, rf_hand,
                   message_sent, message_received, appVars, colVars, libVars>>

OneshotRecvForwarder ==
    \/ OsRfRecvOk
    \/ OsRfRecvErr
    \/ OsRfOuterClosed
    \/ OsRfSignal
    \/ OsRfProxySend
    \/ OsRfEmitReceived
    \/ OsRfEmitClosed
    \/ OsRfDrop

(***************************************************************************)
(* wrappers.rs: wrap_oneshot, send-forwarder (the second task spawned)     *)
(***************************************************************************)
\* select!: msg = outer_rx_proxy, Ok(msg); the receiver is consumed
OsSfRecvOk ==
    /\ kind = "oneshot" /\ sf_pc = "select"
    /\ to_inner # <<>>
    /\ sf_hand' = Head(to_inner)
    /\ to_inner' = Tail(to_inner)
    /\ to_inner_closed' = TRUE
    /\ sf_pc' = "send"
    /\ UNCHANGED <<kind, capacity, inner, inner_tx_dropped, inner_rx_dropped,
                   from_inner, from_inner_tx_dropped, close_signal,
                   rf_pc, rf_hand, message_sent, message_received, appVars, colVars, libVars>>

\* Fault variant of OsSfRecvErr: the branch does not match on the result and
\* reports the dropped sender as a sent message.
OsSfRecvErr_AsSent ==
    /\ kind = "oneshot" /\ sf_pc = "select"
    /\ to_inner = <<>> /\ otx_dropped
    /\ to_inner_closed' = TRUE
    /\ sf_pc' = "emit"
    /\ UNCHANGED <<kind, capacity, to_inner, inner, inner_tx_dropped, inner_rx_dropped,
                   from_inner, from_inner_tx_dropped, close_signal, sf_hand,
                   rf_pc, rf_hand, message_sent, message_received, appVars, colVars, libVars>>

\* select!: msg = outer_rx_proxy, Err(_): outer sender dropped without sending
OsSfRecvErr ==
    /\ kind = "oneshot" /\ sf_pc = "select"
    /\ to_inner = <<>> /\ otx_dropped
    /\ to_inner_closed' = TRUE
    /\ sf_pc' = "exit"
    /\ UNCHANGED <<kind, capacity, to_inner, inner, inner_tx_dropped, inner_rx_dropped,
                   from_inner, from_inner_tx_dropped, close_signal, sf_hand,
                   rf_pc, rf_hand, message_sent, message_received, appVars, colVars, libVars>>

\* select!: _ = &mut close_signal_rx; outer_rx_proxy, moved into the select,
\* is dropped with what it holds
OsSfCloseSignal ==
    /\ kind = "oneshot" /\ sf_pc = "select"
    /\ close_signal # "pending"
    /\ to_inner_closed' = TRUE
    /\ to_inner' = <<>>
    /\ sf_pc' = "exit"
    /\ UNCHANGED <<kind, capacity, inner, inner_tx_dropped, inner_rx_dropped,
                   from_inner, from_inner_tx_dropped, close_signal, sf_hand,
                   rf_pc, rf_hand, message_sent, message_received, appVars, colVars, libVars>>

\* inner_tx.send(msg): Err(msg) when inner_rx is gone, Ok otherwise; the
\* sender is consumed
OsSfInnerSend ==
    /\ kind = "oneshot" /\ sf_pc = "send"
    /\ IF inner_rx_dropped
       THEN /\ sf_pc' = "exit"
            /\ UNCHANGED inner
       ELSE /\ inner' = Append(inner, sf_hand)
            /\ sf_pc' = "emit"
    /\ inner_tx_dropped' = TRUE
    /\ sf_hand' = None
    /\ UNCHANGED <<kind, capacity, to_inner, to_inner_closed, inner_rx_dropped,
                   from_inner, from_inner_tx_dropped, close_signal,
                   rf_pc, rf_hand, message_sent, message_received, appVars, colVars, libVars>>

\* Fault variant of OsSfEmitSent: MessageSent is emitted twice.
OsSfEmitSent_Twice ==
    /\ kind = "oneshot" /\ sf_pc = "emit"
    /\ evq' = Append(Append(evq, MessageSent(ChanId)), MessageSent(ChanId))
    /\ sf_pc' = "notify"
    /\ UNCHANGED <<kind, capacity, chanVars, sf_hand, rf_pc, rf_hand,
                   message_sent, message_received, appVars, stats, log_limit, libVars>>

\* stats_tx_send.send(StatsEvent::MessageSent)
OsSfEmitSent ==
    /\ kind = "oneshot" /\ sf_pc = "emit"
    /\ Emit(MessageSent(ChanId))
    /\ sf_pc' = "notify"
    /\ UNCHANGED <<kind, capacity, chanVars, sf_hand, rf_pc, rf_hand,
                   message_sent, message_received, appVars, stats, log_limit, libVars>>

\* stats_tx_send.send(StatsEvent::Notified); message_sent = true
OsSfEmitNotified ==
    /\ kind = "oneshot" /\ sf_pc = "notify"
    /\ Emit(Notified(ChanId))
    /\ message_sent' = TRUE
    /\ sf_pc' = "exit"
    /\ UNCHANGED <<kind, capacity, chanVars, sf_hand, rf_pc, rf_hand,
                   message_received, appVars, stats, log_limit, libVars>>

\* Fault variant of OsSfEmitClosed: a one-shot that ends unsent is reported
\* as Notified.
OsSfEmitClosed_Notifies ==
    /\ kind = "oneshot" /\ sf_pc = "exit"
    /\ IF ~message_sent THEN Emit(Notified(ChanId)) ELSE UNCHANGED evq
    /\ sf_pc' = "drop"
    /\ UNCHANGED <<kind, capacity, chanVars, sf_hand, rf_pc, rf_hand,
                   message_sent, message_received, appVars, stats, log_limit, libVars>>

\* if !message_sent { stats_tx_send.send(StatsEvent::Closed) }
OsSfEmitClosed ==
    /\ kind = "oneshot" /\ sf_pc = "exit"
    /\ IF ~message_sent THEN Emit(Closed(ChanId)) ELSE UNCHANGED evq
    /\ sf_pc' = "drop"
    /\ UNCHANGED <<kind, capacity, chanVars, sf_hand, rf_pc, rf_hand,
                   message_sent, message_received, appVars, stats, log_limit, libVars>>

\* the task ends: inner_tx (if unused) and close_signal_rx are dropped
OsSfDrop ==
    /\ kind = "oneshot" /\ sf_pc = "drop"
    /\ inner_tx_dropped' = TRUE
    /\ sf_pc' = "done"
    /\ UNCHANGED <<kind, capacity, to_inner, to_inner_closed, inner, inner_rx_dropped,
                   from_inner, from_inner_tx_dropped, close_signal, sf_hand,
                   rf_pc, rf_hand, message_sent, message_received, appVars, colVars, libVars>>

OneshotSendForwarder ==
    \/ OsSfRecvOk
    \/ OsSfRecvErr
    \/ OsSfCloseSignal
    \/ OsSfInnerSend
    \/ OsSfEmitSent
    \/ OsSfEmitNotified
    \/ OsSfEmitClosed
    \/ OsSfDrop

Application ==
    \/ OuterSend
    \/ DropOuterTx
    \/ OuterRecv
    \/ DropOuterRx

Wrap ==
    \/ \E c \in 1..MaxCap : wrap_channel(c)
    \/ wrap_unbounded
    \/ wrap_oneshot

Next ==
    \/ Wrap
    \/ Application
    \/ SendForwarder
    \/ RecvForwarder
    \/ OneshotSendForwarder
    \/ OneshotRecvForwarder
    \/ Collect

Spec == Init /\ [][Next]_vars

\* The forwarders run on their own multi-threaded runtime and the collector
\* on its own thread: each takes a step it can take.  Nothing is assumed of
\* the application.
Fairness ==
    /\ WF_vars(SendForwarder)
    /\ WF_vars(RecvForwarder)
    /\ WF_vars(OneshotSendForwarder)
    /\ WF_vars(OneshotRecvForwarder)
    /\ WF_vars(Collect)

FairSpec == Spec /\ Fairness

(***************************************************************************)
(* lib.rs: the collector under the events of several instrumented          *)
(* channels.  The wrappers of the program at large put events on the       *)
(* queue: a Created with a fresh id for each channel, then events of       *)
(* channels already created.  The queue hands the events over in the order *)
(* they were sent, so what the collector computes does not depend on how   *)
(* far it lags: here an event is sent when the queue is empty.             *)
(***************************************************************************)
\* Channels created.
MaxChans == 4
\* Events put on the queue.
MaxEvents == 5
\* Largest CHANNELS_CONSOLE_LOG_LIMIT tried.
MaxLogLimit == 2

\* The instrument! call sites of the program: each fixes the source
\* (concat!(file!(), ":", line!())), the label and the type of the channels
\* created there, any number of them when the call is in a loop.
Sites ==
    {[source |-> ChanSource, label |-> Nothing, channel_type |-> Bounded(1)],
     [source |-> "examples/tokio/iter.rs:7", label |-> Some("jobs"),
      channel_type |-> Oneshot],
     [source |-> "src/bin/worker.rs:120", label |-> Nothing, channel_type |-> Unbounded],
     [source |-> "src/lib.rs:33", label |-> Some("jobs"), channel_type |-> Bounded(2)]}

\* get_log_limit() reads CHANNELS_CONSOLE_LOG_LIMIT: any usize
InitCollector ==
    /\ NotInstrumented
    /\ StatsStarted
    /\ log_limit \in 0..MaxLogLimit
    /\ ct_in = Nothing /\ ct_text = Nothing /\ ct_out = Nothing
    /\ StatsStateReady
    /\ Unobserved

\* A channel is instrumented: its id is taken from CHANNEL_ID_COUNTER and
\* its Created event is sent.
ProduceCreated ==
    /\ produced < MaxEvents /\ next_id < MaxChans
    /\ evq = <<>>
    /\ \E site \in Sites :
          Emit(CreatedEvent(next_id, site.source, site.label, site.channel_type))
    /\ next_id' = next_id + 1
    /\ produced' = produced + 1
    /\ UNCHANGED <<kind, capacity, chanVars, fwdVars, appVars, stats, log_limit,
                   collector_alive, ct_in, ct_text, ct_out, onceVars, obsVars>>

\* A forwarder of a channel created before sends one of its events.
ProduceEvent ==
    /\ produced < MaxEvents
    /\ evq = <<>>
    /\ \E id \in 0..(next_id - 1) :
          \E e \in {MessageSent(id), MessageReceived(id), Closed(id), Notified(id)} :
             Emit(e)
    /\ produced' = produced + 1
    /\ UNCHANGED <<kind, capacity, chanVars, fwdVars, appVars, stats, log_limit,
                   collector_alive, next_id, ct_in, ct_text, ct_out, onceVars, obsVars>>

NextCollector ==
    \/ ProduceCreated
    \/ ProduceEvent
    \/ Collect

CollectorSpec == InitCollector /\ [][NextCollector]_vars

\* The handlers provide for an event whose id has no record: here an event of
\* a channel whose Created has not been sent yet is put on the queue, which
\* the wrappers of wrappers.rs never do.
ProduceUnknown ==
    /\ produced < MaxEvents
    /\ evq = <<>>
    /\ \E id \in next_id..(MaxChans - 1) :
          \E e \in {MessageSent(id), MessageReceived(id), Closed(id), Notified(id)} :
             Emit(e)
    /\ produced' = produced + 1
    /\ UNCHANGED <<kind, capacity, chanVars, fwdVars, appVars, stats, log_limit,
                   collector_alive, next_id, ct_in, ct_text, ct_out, onceVars, obsVars>>

NextUnknownId ==
    \/ NextCollector
    \/ ProduceUnknown

UnknownIdSpec == InitCollector /\ [][NextUnknownId]_vars

(***************************************************************************)
(* lib.rs: a ChannelType written as text and read back                     *)
(***************************************************************************)
\* Largest size of a Bounded channel type written and read back.
MaxSize == 120

InitRoundTrip ==
    /\ NotInstrumented
    /\ StatsStarted
    /\ log_limit = DEFAULT_LOG_LIMIT
    /\ ct_in \in {Some(Bounded(n)) : n \in 0..MaxSize} \cup {Some(Unbounded), Some(Oneshot)}
    /\ ct_text = Nothing /\ ct_out = Nothing
    /\ StatsStateReady
    /\ Unobserved

\* serializer.serialize_str(&self.to_string())
Serialize ==
    /\ ct_in # Nothing /\ ct_text = Nothing
    /\ ct_text' = Some(ChannelType_fmt(ct_in[1]))
    /\ UNCHANGED <<kind, capacity, chanVars, fwdVars, appVars, colVars,
                   collector_alive, next_id, produced, ct_in, ct_out, onceVars, obsVars>>

\* ChannelType::deserialize on the text written
Deserialize ==
    /\ ct_text # Nothing /\ ct_out = Nothing
    /\ ct_out' = Some(ChannelType_deserialize(ct_text[1]))
    /\ UNCHANGED <<kind, capacity, chanVars, fwdVars, appVars, colVars,
                   collector_alive, next_id, produced, ct_in, ct_text, onceVars, obsVars>>

NextRoundTrip ==
    \/ Serialize
    \/ Deserialize

RoundTripSpec == InitRoundTrip /\ [][NextRoundTrip]_vars

(***************************************************************************)
(* The wrappers of a channel instrumented after the collector thread has   *)
(* ended                                                                   *)
(***************************************************************************)
\* STATS_STATE still hands out the sender of the event queue, but the
\* collector thread has ended (a panic under the write lock) and dropped the
\* receiver: every stats_tx.send fails.
InitStopped ==
    /\ NotInstrumented
    /\ evq = <<>>
    /\ stats = <<>>
    /\ collector_alive = FALSE
    /\ next_id = 0
    /\ produced = 0
    /\ log_limit = DEFAULT_LOG_LIMIT
    /\ ct_in = Nothing /\ ct_text = Nothing /\ ct_out = Nothing
    /\ StatsStateReady
    /\ Unobserved

NextStopped ==
    \/ Wrap
    \/ Application
    \/ SendForwarder
    \/ RecvForwarder
    \/ OneshotSendForwarder
    \/ OneshotRecvForwarder

StoppedSpec == InitStopped /\ [][NextStopped]_vars /\ Fairness

(***************************************************************************)
(* lib.rs: init_stats_state, called by several threads that instrument     *)
(* their first channel at the same time.  OnceLock::get_or_init runs the   *)
(* closure of one caller and blocks the others until it has returned.      *)
(***************************************************************************)
\* Nothing has been instrumented yet.
InitOnce ==
    /\ NotInstrumented
    /\ evq = <<>> /\ stats = <<>>
    /\ collector_alive = FALSE
    /\ next_id = 0 /\ produced = 0
    /\ log_limit = DEFAULT_LOG_LIMIT
    /\ ct_in = Nothing /\ ct_text = Nothing /\ ct_out = Nothing
    /\ once = "incomplete"
    /\ STATS_STATE = Nothing
    /\ init_pc = [t \in Threads |-> "start"]
    /\ init_q = [t \in Threads |-> 0]
    /\ handle = [t \in Threads |-> 0]
    /\ queues = 0 /\ stats_maps = 0
    /\ collector_threads = {}
    /\ server_threads = 0
    /\ qlen = [q \in Threads |-> 0]
    /\ Unobserved

onceFrame == <<kind, capacity, chanVars, fwdVars, appVars, colVars,
               collector_alive, next_id, produced, ct_in, ct_text, ct_out, obsVars>>

\* Fault variant of get_or_init: `if STATS_STATE.get().is_none()` followed by
\* the initialisation, with nothing that keeps a second thread out.
get_or_init_CheckThenInit(t) ==
    /\ init_pc[t] = "start"
    /\ \/ /\ STATS_STATE # Nothing
          /\ handle' = [handle EXCEPT ![t] = STATS_STATE[1]]
          /\ init_pc' = [init_pc EXCEPT ![t] = "have"]
          /\ UNCHANGED once
       \/ /\ STATS_STATE = Nothing
          /\ once' = "running"
          /\ init_pc' = [init_pc EXCEPT ![t] = "closure"]
          /\ UNCHANGED handle
    /\ UNCHANGED <<onceFrame, STATS_STATE, init_q, queues, stats_maps,
                   collector_threads, server_threads, qlen>>

\* STATS_STATE.get_or_init(|| ...): the value when the cell is complete; the
\* closure when no initialisation has started; while another thread runs
\* the closure the caller begins to wait.
get_or_init(t) ==
    /\ init_pc[t] = "start"
    /\ \/ /\ once = "complete"
          /\ handle' = [handle EXCEPT ![t] = STATS_STATE[1]]
          /\ init_pc' = [init_pc EXCEPT ![t] = "have"]
          /\ UNCHANGED once
       \/ /\ once = "incomplete"
          /\ once' = "running"
          /\ init_pc' = [init_pc EXCEPT ![t] = "closure"]
          /\ UNCHANGED handle
       \/ /\ once = "running"
          /\ init_pc' = [init_pc EXCEPT ![t] = "waiting"]
          /\ UNCHANGED <<once, handle>>
    /\ UNCHANGED <<onceFrame, STATS_STATE, init_q, queues, stats_maps,
                   collector_threads, server_threads, qlen>>

\* get_or_init in a caller that waited: the initialisation is complete and
\* the caller gets the value in the cell
get_or_init_wake(t) ==
    /\ init_pc[t] = "waiting"
    /\ once = "complete"
    /\ handle' = [handle EXCEPT ![t] = STATS_STATE[1]]
    /\ init_pc' = [init_pc EXCEPT ![t] = "have"]
    /\ UNCHANGED <<onceFrame, once, STATS_STATE, init_q, queues, stats_maps,
                   collector_threads, server_threads, qlen>>

\* the closure: unbounded::<StatsEvent>() and the new stats map
ClosureNewQueue(t) ==
    /\ init_pc[t] = "closure"
    /\ queues' = queues + 1
    /\ stats_maps' = stats_maps + 1
    /\ init_q' = [init_q EXCEPT ![t] = queues + 1]
    /\ init_pc' = [init_pc EXCEPT ![t] = "spawn_collector"]
    /\ UNCHANGED <<onceFrame, once, STATS_STATE, handle, collector_threads,
                   server_threads, qlen>>

\* the closure: the channel-stats-collector thread is spawned on rx
ClosureSpawnCollector(t) ==
    /\ init_pc[t] = "spawn_collector"
    /\ collector_threads' = collector_threads \cup {init_q[t]}
    /\ init_pc' = [init_pc EXCEPT ![t] = "spawn_server"]
    /\ UNCHANGED <<onceFrame, once, STATS_STATE, init_q, handle, queues, stats_maps,
                   server_threads, qlen>>

\* the closure: std::thread::spawn(start_metrics_server)
ClosureSpawnServer(t) ==
    /\ init_pc[t] = "spawn_server"
    /\ server_threads' = server_threads + 1
    /\ init_pc' = [init_pc EXCEPT ![t] = "return"]
    /\ UNCHANGED <<onceFrame, once, STATS_STATE, init_q, handle, queues, stats_maps,
                   collector_threads, qlen>>

\* the closure returns (tx, stats_map): the cell keeps the first value it is
\* given, and the caller gets a reference to the value in the cell
ClosureReturn(t) ==
    /\ init_pc[t] = "return"
    /\ STATS_STATE' = IF STATS_STATE = Nothing THEN Some(init_q[t]) ELSE STATS_STATE
    /\ once' = "complete"
    /\ handle' = [handle EXCEPT ![t] = STATS_STATE'[1]]
    /\ init_pc' = [init_pc EXCEPT ![t] = "have"]
    /\ UNCHANGED <<onceFrame, init_q, queues, stats_maps, collector_threads,
                   server_threads, qlen>>

\* wrap_*: let _ = stats_tx.send(StatsEvent::Created { .. }) on the handle
SendCreated(t) ==
    /\ init_pc[t] = "have"
    /\ qlen' = [qlen EXCEPT ![handle[t]] = @ + 1]
    /\ init_pc' = [init_pc EXCEPT ![t] = "done"]
    /\ UNCHANGED <<onceFrame, once, STATS_STATE, init_q, handle, queues, stats_maps,
                   collector_threads, server_threads>>

\* a collector thread takes an event from its queue
CollectorRecv(q) ==
    /\ q \in collector_threads
    /\ qlen[q] > 0
    /\ qlen' = [qlen EXCEPT ![q] = @ - 1]
    /\ UNCHANGED <<onceFrame, once, STATS_STATE, init_pc, init_q, handle, queues,
                   stats_maps, collector_threads, server_threads>>

NextOnce ==
    \/ \E t \in Threads : get_or_init(t)
    \/ \E t \in Threads : get_or_init_wake(t)
    \/ \E t \in Threads : ClosureNewQueue(t)
    \/ \E t \in Threads : ClosureSpawnCollector(t)
    \/ \E t \in Threads : ClosureSpawnServer(t)
    \/ \E t \in Threads : ClosureReturn(t)
    \/ \E t \in Threads : SendCreated(t)
    \/ \E q \in Threads : CollectorRecv(q)

OnceSpec == InitOnce /\ [][NextOnce]_vars

(***************************************************************************)
(* wrappers.rs: a bounded wrapper under a sender that outruns the          *)
(* receiver, while both outer ends are held: the steps of the two          *)
(* forwarders' loops, outer sends and receives, and the collector.         *)
(***************************************************************************)
\* Send attempts of the fast sender: enough to fill every buffer of the
\* pipeline at capacity MaxCap.
MaxBurst == 8

NextBackpressure ==
    \/ \E c \in 1..MaxCap : wrap_channel(c)
    \/ OuterSendWithin(MaxBurst)
    \/ OuterRecv
    \/ SfRecvSome
    \/ SfInnerSend
    \/ SfEmitSent
    \/ RfRecvSome
    \/ RfOuterSend
    \/ RfEmitReceived
    \/ Collect

BackpressureSpec == Init /\ [][NextBackpressure]_vars

(***************************************************************************)
(* lib.rs: the per-channel log lookup, asked for id texts of any shape      *)
(* while the collector works.                                              *)
(***************************************************************************)
\* Events put on the queue before and between the lookups.
MaxLookupEvents == 3

\* The id texts asked for: ids in their decimal form, with a sign or leading
\* zeros, beyond the ids in use, and texts that are no numbers.
LookupTexts == {"0", "1", "2", "+1", "00", "7", "", "+", "-1", "1x", "abc"}

\* get_channel_logs(channel_id), as the logs endpoint calls it
LookupLogs(text) ==
    /\ logs_req' = Some(text)
    /\ logs_resp' = Some(get_channel_logs_text(stats, text))
    /\ UNCHANGED <<kind, capacity, chanVars, fwdVars, appVars, colVars,
                   collector_alive, next_id, produced, ct_in, ct_text, ct_out, onceVars,
                   snapVars, conVars>>

\* The wrappers' events, up to MaxLookupEvents of them.
LookupProduceCreated == produced < MaxLookupEvents /\ ProduceCreated

LookupProduceEvent == produced < MaxLookupEvents /\ ProduceEvent

NextLookup ==
    \/ LookupProduceCreated
    \/ LookupProduceEvent
    \/ Collect
    \/ \E text \in LookupTexts : LookupLogs(text)

LookupSpec == Init /\ [][NextLookup]_vars

(***************************************************************************)
(* lib.rs: the collector loop statement by statement, under the write lock  *)
(* of the stats map, and a reader that clones the map under the read lock.   *)
(***************************************************************************)
\* Events put on the queue.
MaxSnapshotEvents == 3

InitSnapshot ==
    /\ NotInstrumented
    /\ StatsStarted
    /\ log_limit \in 1..MaxLogLimit
    /\ ct_in = Nothing /\ ct_text = Nothing /\ ct_out = Nothing
    /\ StatsStateReady
    /\ Unobserved

snapFrame == <<kind, capacity, chanVars, fwdVars, appVars, log_limit, collector_alive,
               next_id, produced, ct_in, ct_text, ct_out, onceVars, logs_req, logs_resp,
               conVars>>

\* while let Ok(event) = rx.recv()
ColRecv ==
    /\ col_pc = "recv"
    /\ evq # <<>>
    /\ col_ev' = Some(Head(evq))
    /\ evq' = Tail(evq)
    /\ col_pc' = "lock"
    /\ UNCHANGED <<snapFrame, stats, lock, snapshot>>

\* let mut stats = stats_map_clone.write().unwrap()
ColLock ==
    /\ col_pc = "lock"
    /\ lock = "free"
    /\ lock' = "write"
    /\ col_pc' = "match"
    /\ UNCHANGED <<snapFrame, evq, stats, col_ev, snapshot>>

\* StatsEvent::Created: the iter is counted and the record inserted
ColCreated ==
    /\ col_pc = "match"
    /\ col_ev[1].type = "Created"
    /\ stats' = ApplyEvent(stats, col_ev[1], log_limit)
    /\ col_pc' = "unlock"
    /\ UNCHANGED <<snapFrame, evq, lock, col_ev, snapshot>>

\* StatsEvent::MessageSent / MessageReceived: stats.get_mut(&id) and, on a
\* record, sent_count += 1 / received_count += 1
ColCount ==
    /\ col_pc = "match"
    /\ col_ev[1].type \in {"MessageSent", "MessageReceived"}
    /\ IF col_ev[1].id \in DOMAIN stats
       THEN /\ stats' = [stats EXCEPT ![col_ev[1].id] =
                           IF col_ev[1].type = "MessageSent"
                           THEN [@ EXCEPT !.sent_count = @ + 1]
                           ELSE [@ EXCEPT !.received_count = @ + 1]]
            /\ col_pc' = "update_state"
       ELSE /\ stats' = stats
            /\ col_pc' = "unlock"
    /\ UNCHANGED <<snapFrame, evq, lock, col_ev, snapshot>>

\* channel_stats.update_state()
ColUpdateState ==
    /\ col_pc = "update_state"
    /\ stats' = [stats EXCEPT ![col_ev[1].id] = update_state(@)]
    /\ col_pc' = "evict"
    /\ UNCHANGED <<snapFrame, evq, lock, col_ev, snapshot>>

\* let limit = get_log_limit(); if logs.len() >= limit { logs.pop_front(); }
ColEvict ==
    /\ col_pc = "evict"
    /\ stats' = [stats EXCEPT ![col_ev[1].id] =
                    IF col_ev[1].type = "MessageSent"
                    THEN [@ EXCEPT !.sent_logs =
                             IF Len(@) >= log_limit /\ @ # <<>> THEN Tail(@) ELSE @]
                    ELSE [@ EXCEPT !.received_logs =
                             IF Len(@) >= log_limit /\ @ # <<>> THEN Tail(@) ELSE @]]
    /\ col_pc' = "push"
    /\ UNCHANGED <<snapFrame, evq, lock, col_ev, snapshot>>

\* logs.push_back(LogEntry::new(count, ..))
ColPush ==
    /\ col_pc = "push"
    /\ stats' = [stats EXCEPT ![col_ev[1].id] =
                    IF col_ev[1].type = "MessageSent"
                    THEN [@ EXCEPT !.sent_logs = Append(@, stats[col_ev[1].id].sent_count)]
                    ELSE [@ EXCEPT !.received_logs =
                             Append(@, stats[col_ev[1].id].received_count)]]
    /\ col_pc' = "unlock"
    /\ UNCHANGED <<snapFrame, evq, lock, col_ev, snapshot>>

\* StatsEvent::Closed / Notified: the state is set on a record
ColSetState ==
    /\ col_pc = "match"
    /\ col_ev[1].type \in {"Closed", "Notified"}
    /\ stats' = ApplyEvent(stats, col_ev[1], log_limit)
    /\ col_pc' = "unlock"
    /\ UNCHANGED <<snapFrame, evq, lock, col_ev, snapshot>>

\* the end of the loop body: the write guard is dropped
ColUnlock ==
    /\ col_pc = "unlock"
    /\ lock' = "free"
    /\ col_ev' = Nothing
    /\ col_pc' = "recv"
    /\ UNCHANGED <<snapFrame, evq, stats, snapshot>>

\* Fault variant of get_channel_stats: the map is cloned without the lock.
get_channel_stats_Unlocked ==
    /\ snapshot' = Some(stats)
    /\ UNCHANGED <<snapFrame, evq, stats, lock, col_pc, col_ev>>

\* get_channel_stats: stats_map.read().unwrap().clone(); the read lock is
\* granted while the collector does not hold the write lock
get_channel_stats ==
    /\ lock = "free"
    /\ snapshot' = Some(stats)
    /\ UNCHANGED <<snapFrame, evq, stats, lock, col_pc, col_ev>>

SnapshotProduceCreated == produced < MaxSnapshotEvents /\ ProduceCreated

SnapshotProduceEvent == produced < MaxSnapshotEvents /\ ProduceEvent

NextSnapshot ==
    \/ SnapshotProduceCreated
    \/ SnapshotProduceEvent
    \/ ColRecv
    \/ ColLock
    \/ ColCreated
    \/ ColCount
    \/ ColUpdateState
    \/ ColEvict
    \/ ColPush
    \/ ColSetState
    \/ ColUnlock
    \/ get_channel_stats

SnapshotSpec == InitSnapshot /\ [][NextSnapshot]_vars

(***************************************************************************)
(* The console (bin/cmd/console/app.rs).  The handlers are functions from  *)
(* the App and the server's present answer to the set of Apps the call can *)
(* leave: the choice is the server's (an answer or an error, and how many  *)
(* log entries the answer holds).                                          *)
(***************************************************************************)
MaxVersions == 2
MaxRows == 2
MaxLogs == 2

\* selected.is_some_and(|i| i < len)
ValidSelection(a) ==
    a.table_selected # Nothing /\ a.table_selected[1] < a.stats.len

\* fetch_logs: the server's answers for the channel of the selected row; of
\* the logs the model keeps version, row and number of sent entries.
fetch_logs(a, s) ==
    {[version |-> s.version, channel |-> a.table_selected[1], count |-> c] :
        c \in {0, MaxLogs}}

refresh_logs(a, s) ==
    IF a.paused
    THEN {a}
    ELSE LET a1 == [a EXCEPT !.logs = Nothing] IN
         IF a1.stats.len > 0 /\ ValidSelection(a1)
         THEN {[a1 EXCEPT !.requests = (@ + 1) % 3]}
              \cup
              {[a1 EXCEPT !.requests = (@ + 1) % 3,
                          !.logs = Some(l),
                          !.logs_selected =
                              IF @ # Nothing /\ @[1] >= l.count /\ l.count > 0
                              THEN Some(l.count - 1)
                              ELSE @] : l \in fetch_logs(a1, s)}
         ELSE {a1}

refresh_data(a, s) ==
    {[a EXCEPT !.error = TRUE, !.requests = (@ + 1) % 3]}
    \cup
    LET a1 == [a EXCEPT !.stats = s,
                        !.error = FALSE,
                        !.requests = (@ + 1) % 3,
                        !.table_selected =
                            IF @ # Nothing /\ @[1] >= s.len /\ s.len > 0
                            THEN Some(s.len - 1)
                            ELSE @]
    IN IF a1.show_logs THEN refresh_logs(a1, s) ELSE {a1}

select_previous_channel(a, s) ==
    IF a.stats.len > 0
    THEN LET i == IF a.table_selected = Nothing THEN 0
                  ELSE IF a.table_selected[1] > 0 THEN a.table_selected[1] - 1
                  ELSE 0
             a1 == [a EXCEPT !.table_selected = Some(i)]
         IN IF a1.paused /\ a1.show_logs
            THEN {[a1 EXCEPT !.logs = Nothing]}
            ELSE IF a1.show_logs THEN refresh_logs(a1, s) ELSE {a1}
    ELSE {a}

select_next_channel(a, s) ==
    IF a.stats.len > 0
    THEN LET i == IF a.table_selected = Nothing THEN 0
                  ELSE IF a.table_selected[1] + 1 < a.stats.len - 1
                       THEN a.table_selected[1] + 1
                       ELSE a.stats.len - 1
             a1 == [a EXCEPT !.table_selected = Some(i)]
         IN IF a1.paused /\ a1.show_logs
            THEN {[a1 EXCEPT !.logs = Nothing]}
            ELSE IF a1.show_logs THEN refresh_logs(a1, s) ELSE {a1}
    ELSE {a}

hide_logs(a) ==
    [a EXCEPT !.show_logs = FALSE,
              !.logs = Nothing,
              !.logs_selected = Nothing,
              !.focus = "Channels"]

toggle_logs(a, s) ==
    IF a.stats.len > 0 /\ ValidSelection(a)
    THEN IF a.show_logs
         THEN {hide_logs(a)}
         ELSE LET a1 == [a EXCEPT !.show_logs = TRUE] IN
              IF a1.paused
              THEN {[a1 EXCEPT !.logs = Nothing]}
              ELSE refresh_logs(a1, s)
    ELSE {a}

toggle_pause(a) ==
    [a EXCEPT !.paused = ~@]

focus_channels(a) ==
    [a EXCEPT !.focus = "Channels", !.logs_selected = Nothing]

focus_logs(a, s) ==
    IF ~a.show_logs
    THEN toggle_logs(a, s)
    ELSE IF a.stats.len > 0 /\ a.logs # Nothing /\ a.logs[1].count > 0
         THEN {[a EXCEPT !.focus = "Logs",
                         !.logs_selected = IF @ = Nothing THEN Some(0) ELSE @]}
         ELSE {a}

\* The entry under the log selection, when the App is inspecting one.
WithInspected(a, i) ==
    LET a1 == [a EXCEPT !.logs_selected = Some(i)] IN
    IF a1.focus = "Inspect" /\ i < a1.logs[1].count
    THEN [a1 EXCEPT !.inspected_log =
                        Some([version |-> a1.logs[1].version,
                              channel |-> a1.logs[1].channel,
                              index |-> i])]
    ELSE a1

select_previous_log(a) ==
    IF a.logs # Nothing /\ a.logs[1].count > 0
    THEN LET i == IF a.logs_selected = Nothing THEN 0
                  ELSE IF a.logs_selected[1] > 0 THEN a.logs_selected[1] - 1
                  ELSE 0
         IN WithInspected(a, i)
    ELSE a

select_next_log(a) ==
    IF a.logs # Nothing /\ a.logs[1].count > 0
    THEN LET n == a.logs[1].count
             i == IF a.logs_selected = Nothing THEN 0
                  ELSE IF a.logs_selected[1] + 1 < n - 1
                       THEN a.logs_selected[1] + 1
                       ELSE n - 1
         IN WithInspected(a, i)
    ELSE a

toggle_inspect(a) ==
    IF a.focus = "Inspect"
    THEN [a EXCEPT !.focus = "Logs", !.inspected_log = Nothing]
    ELSE IF /\ a.focus = "Logs"
            /\ a.logs_selected # Nothing
            /\ a.logs # Nothing
            /\ a.logs_selected[1] < a.logs[1].count
         THEN [a EXCEPT !.inspected_log =
                            Some([version |-> a.logs[1].version,
                                  channel |-> a.logs[1].channel,
                                  index |-> a.logs_selected[1]]),
                        !.focus = "Inspect"]
         ELSE a

close_inspect_and_refocus_channels(a) ==
    hide_logs([a EXCEPT !.inspected_log = Nothing])

close_inspect_only(a) ==
    [a EXCEPT !.inspected_log = Nothing,
              !.focus = "Channels",
              !.logs_selected = Nothing]

App_exit(a) ==
    [a EXCEPT !.exit = TRUE]

handle_key_event(a, key, s) ==
    CASE key = "q" -> {App_exit(a)}
      [] key = "o" -> (CASE a.focus = "Inspect" ->
                                {close_inspect_and_refocus_channels(a)}
                         [] a.focus = "Logs" -> {hide_logs(a)}
                         [] a.focus = "Channels" -> toggle_logs(a, s))
      [] key = "p" -> {toggle_pause(a)}
      [] key = "h" -> (IF a.focus = "Inspect"
                       THEN {close_inspect_only(a)}
                       ELSE {focus_channels(a)})
      [] key = "l" -> focus_logs(a, s)
      [] key = "i" -> {toggle_inspect(a)}
      [] key = "k" -> (IF a.focus = "Channels"
                       THEN select_previous_channel(a, s)
                       ELSE {select_previous_log(a)})
      [] key = "j" -> (IF a.focus = "Channels"
                       THEN select_next_channel(a, s)
                       ELSE {select_next_log(a)})
      [] OTHER -> {a}

conFrame == <<kind, capacity, chanVars, fwdVars, appVars, colVars,
              collector_alive, next_id, produced, ct_in, ct_text, ct_out,
              onceVars, logs_req, logs_resp, snapVars>>

\* App::run up to its loop: the first refresh.
RunStart ==
    /\ ~app.running
    /\ \E a \in refresh_data([app EXCEPT !.running = TRUE], srv) :
           app' = a
    /\ UNCHANGED <<conFrame, srv>>

\* What a loop iteration does before it draws, once the refresh interval
\* has elapsed.
LoopRefresh_IgnoresPause(a, s) ==
    refresh_data(a, s)

LoopRefresh(a, s) ==
    IF ~a.paused THEN refresh_data(a, s) ELSE {a}

\* A loop iteration in which no key is waiting; elapsed tells whether the
\* refresh interval has passed.
RunIdle ==
    /\ app.running
    /\ ~app.exit
    /\ \E elapsed \in BOOLEAN :
           \E a \in (IF elapsed
                     THEN LoopRefresh(app, srv)
                     ELSE {app}) :
               app' = a
    /\ UNCHANGED <<conFrame, srv>>

\* A loop iteration that reads a key press.
RunKey ==
    /\ app.running
    /\ ~app.exit
    /\ \E elapsed \in BOOLEAN,
          key \in {"q", "o", "p", "h", "l", "i", "k", "j", "x"} :
           \E a1 \in (IF elapsed
                      THEN LoopRefresh(app, srv)
                      ELSE {app}) :
               \E a2 \in handle_key_event(a1, key, srv) :
                   app' = a2
    /\ UNCHANGED <<conFrame, srv>>

\* The instrumented program goes on: the server's next answer is another.
ServerUpdate ==
    /\ srv.version < MaxVersions
    /\ \E n \in 0..MaxRows :
           srv' = [version |-> srv.version + 1, len |-> n]
    /\ UNCHANGED <<conFrame, app>>

NextConsole ==
    \/ RunStart
    \/ RunIdle
    \/ RunKey
    \/ ServerUpdate

ConsoleSpec == Init /\ [][NextConsole]_vars

(***************************************************************************)
(* Properties                                                              *)
(***************************************************************************)
IsPrefix(p, q) == Len(p) <= Len(q) /\ SubSeq(q, 1, Len(p)) = p

\* Messages accepted by outer sends and not yet taken by the outer receiver.
Pending == Len(accepted) - Len(received)

HasRecord == ChanId \in DOMAIN stats

\* C1: end-to-end FIFO of the bounded and unbounded wrappers: what the outer
\* receiver has taken so far is a prefix of what the outer send accepted, in
\* the same order, in every interleaving of the two forwarders.
C1_EndToEndFifo == IsMpsc => IsPrefix(received, accepted)

\* C1 witness: three messages were taken while a fourth, accepted one is
\* still in the pipeline.
C1_Witness ==
    /\ IsMpsc
    /\ Len(received) = 3
    /\ Len(accepted) = 4
    /\ ~orx_dropped

\* C2: backpressure of a bounded wrapper of capacity C: no more than C
\* messages are accepted by outer sends and not yet taken by the outer
\* receiver.
C2_Backpressure == kind = "bounded" => Pending <= capacity

\* Both forwarders wait in their select and nothing is left to relay or apply.
Quiescent ==
    /\ IsMpsc
    /\ sf_pc = "select" /\ rf_pc = "select"
    /\ to_inner = <<>> /\ inner = <<>> /\ from_inner = <<>>
    /\ Len(received) = Len(accepted)
    /\ evq = <<>>
    /\ ~otx_dropped /\ ~orx_dropped

\* C3: exact counting at quiescence: n messages sent and all n taken by the
\* outer receiver, forwarders idle, every event applied, no outer end
\* dropped: the record shows sent_count = n, received_count = n, queued = 0
\* and state Active.
C3_ExactCountAtQuiescence ==
    Quiescent =>
        /\ HasRecord
        /\ stats[ChanId].sent_count = Len(accepted)
        /\ stats[ChanId].received_count = Len(accepted)
        /\ queued(stats[ChanId]) = 0
        /\ stats[ChanId].state = "Active"

\* C3 witness: quiescence after three messages through a bounded channel.
C3_Witness ==
    /\ Quiescent
    /\ kind = "bounded"
    /\ Len(accepted) = 3

BothDone == sf_pc = "done" /\ rf_pc = "done"

Exited(pc) == pc \in {"exit", "drop", "done"}

ClosedInSnapshot == HasRecord /\ stats[ChanId].state = "Closed"

\* The outer receiver takes what reaches it: the assumption of the claims
\* that speak of a receiver that keeps receiving.
ReceiverKeepsReceiving == WF_vars(OuterRecv)

C5_SenderDropCascade ==
    /\ ReceiverKeepsReceiving =>
          ((IsMpsc /\ otx_dropped) ~> (BothDone /\ inner_tx_dropped))
    /\ []((IsMpsc /\ ~orx_dropped /\ Exited(rf_pc)) => (sf_pc = "done" /\ inner_tx_dropped))

\* C5 witness: sender dropped, receiver alive, every message delivered, both
\* forwarders gone.
C5_Witness ==
    /\ IsMpsc /\ otx_dropped /\ ~orx_dropped
    /\ BothDone
    /\ Len(accepted) >= 2 /\ received = accepted

\* C6: receiver-drop cascade: after the outer receiver of an mpsc wrapper is
\* dropped both forwarders exit, also when the send-forwarder is blocked on a
\* full inner channel; after that every outer send fails with a closed error.
C6_ReceiverDropCascade ==
    /\ (IsMpsc /\ orx_dropped) ~> BothDone
    /\ [][(IsMpsc /\ orx_dropped /\ BothDone /\ next_msg' # next_msg)
            => (send_errs' = send_errs + 1 /\ accepted' = accepted)]_vars

\* C6 witness: the outer receiver is dropped while the send-forwarder is
\* blocked on the full inner channel and the recv-forwarder holds a message.
C6_Witness ==
    /\ kind = "bounded" /\ orx_dropped
    /\ sf_pc = "send" /\ Len(inner) = capacity
    /\ rf_pc = "send"

\* No accepted message is left behind by a forwarder that left its loop.
NoStranded ==
    /\ Exited(sf_pc) => (to_inner = <<>> /\ sf_hand = None)
    /\ Exited(rf_pc) => (inner = <<>> /\ rf_hand = None /\ Exited(sf_pc))

\* C7: no data loss on sender closure: with the outer receiver alive no
\* forwarder of an mpsc wrapper leaves its loop while an accepted message is
\* in to_inner, in the inner channel or in a hand; the receiver observes
\* end-of-stream only after it took every accepted message, and a receiver
\* that keeps receiving does observe it after the sender was dropped.
C7_NoLossOnSenderClosure ==
    /\ []((IsMpsc /\ ~orx_dropped) => NoStranded)
    /\ []((IsMpsc /\ rx_eos) => received = accepted)
    /\ ReceiverKeepsReceiving =>
          ((IsMpsc /\ otx_dropped) ~> (orx_dropped \/ (rx_eos /\ received = accepted)))

\* C7 witness: the receiver saw end-of-stream after taking all of at least
\* three messages sent before the sender was dropped.
C7_Witness ==
    /\ IsMpsc /\ otx_dropped /\ ~orx_dropped
    /\ rx_eos
    /\ Len(accepted) >= 3 /\ received = accepted

\* Events of a type put on the event queue so far: applied or still queued.
PendingEvents(t) == Cardinality({i \in 1..Len(evq) : evq[i].type = t})

EmittedSent == PendingEvents("MessageSent") + (IF HasRecord THEN stats[ChanId].sent_count ELSE 0)

EmittedReceived ==
    PendingEvents("MessageReceived") + (IF HasRecord THEN stats[ChanId].received_count ELSE 0)

\* C8: one-shot single use: the outer receiver obtains at most one value and
\* at most one MessageSent and one MessageReceived are emitted, so
\* sent_count <= 1 and received_count <= 1.
C8_OneshotSingleUse ==
    kind = "oneshot" =>
        /\ Len(received) <= 1
        /\ EmittedSent <= 1
        /\ EmittedReceived <= 1
        /\ HasRecord => (stats[ChanId].sent_count <= 1 /\ stats[ChanId].received_count <= 1)

\* C8 witness: a completed one-shot, both events applied, the value taken.
C8_Witness ==
    /\ kind = "oneshot" /\ HasRecord
    /\ stats[ChanId].sent_count = 1
    /\ stats[ChanId].received_count = 1
    /\ received = <<1>>

\* The outer sender of a one-shot was dropped without a send.
OneshotSenderAborted == kind = "oneshot" /\ otx_dropped /\ next_msg = 0

\* C9: one-shot abort by the sender: the send-forwarder drops inner_tx, the
\* recv-forwarder drops inner_tx_proxy without a value in it, so the outer
\* receiver never gets a value and, when it awaits, gets the closed error.
C9_OneshotSenderAbort ==
    /\ OneshotSenderAborted ~>
          (inner_tx_dropped /\ from_inner_tx_dropped /\ from_inner = <<>>)
    /\ [](OneshotSenderAborted => (received = <<>> /\ from_inner = <<>>))
    /\ ReceiverKeepsReceiving => (OneshotSenderAborted ~> (rx_eos \/ orx_dropped))

\* C9 witness: the outer receiver of an aborted one-shot got the error.
C9_Witness == OneshotSenderAborted /\ rx_eos /\ BothDone

\* C10: one-shot abort by the receiver: an outer send made after the outer
\* receiver was dropped returns the value back as a closed error.
C10_OneshotReceiverAbort ==
    [][(kind = "oneshot" /\ orx_dropped /\ next_msg' # next_msg)
         => (send_errs' = send_errs + 1 /\ accepted' = accepted)]_vars

QueuedEvents(t) == {i \in 1..Len(evq) : evq[i].type = t}

\* The send-forwarder of a one-shot forwarded the value: inner_tx.send
\* returned Ok, so MessageSent and Notified are or will be emitted.
OneshotForwarded ==
    /\ kind = "oneshot"
    /\ sf_pc \in {"emit", "notify"} \/ message_sent

\* C11: a completed one-shot is never Closed: on a one-shot whose
\* send-forwarder forwarded the value no forwarder emits Closed and the
\* collector's state is never Closed, also when the outer receiver is dropped
\* while the value is in transit.
C11_CompletedOneshotNeverClosed ==
    OneshotForwarded =>
        /\ QueuedEvents("Closed") = {}
        /\ ~ClosedInSnapshot

\* C12: an aborted one-shot ends Closed: when the outer sender is dropped
\* before sending, no Notified is ever emitted and, once both forwarders have
\* exited and the collector has applied every event, the state is Closed with
\* sent_count = 0 and received_count = 0.
C12_AbortedOneshotEndsClosed ==
    OneshotSenderAborted =>
        /\ ~message_sent /\ QueuedEvents("Notified") = {}
        /\ HasRecord => stats[ChanId].state # "Notified"
        /\ (BothDone /\ evq = <<>>) =>
              /\ ClosedInSnapshot
              /\ stats[ChanId].sent_count = 0
              /\ stats[ChanId].received_count = 0

\* C12 witness: an aborted one-shot, both forwarders gone, every event
\* applied, the receiver still alive.
C12_Witness ==
    /\ OneshotSenderAborted /\ ~orx_dropped
    /\ BothDone /\ evq = <<>>
    /\ ClosedInSnapshot

Terminal(state) == state \in {"Closed", "Notified"}

\* C13: terminal state stickiness: once the collector's state of the channel
\* is Closed or Notified no later event changes it, for every event sequence
\* the forwarders of the three wrappers produce.
C13_TerminalStickiness ==
    [][(HasRecord /\ Terminal(stats[ChanId].state))
         => stats'[ChanId].state = stats[ChanId].state]_vars

\* C14: received_count <= sent_count in every reachable state of the stats
\* map, for every channel kind and every interleaving of the two forwarders'
\* emissions and the collector.
C14_ReceivedAtMostSent ==
    HasRecord => stats[ChanId].received_count <= stats[ChanId].sent_count

\* No forwarder can take a step: each is idle in its select, blocked in a
\* send on a full channel, or gone.
ForwardersIdle ==
    ~ENABLED (SendForwarder \/ RecvForwarder \/ OneshotSendForwarder \/ OneshotRecvForwarder)

\* C15: count consistency at quiescence: with both forwarders idle or blocked
\* and every emitted event applied,
\* received_count <= sent_count <= received_count + max_in_flight, where
\* max_in_flight is capacity + 2 for a bounded channel and 1 for a one-shot.
C15_CountConsistency ==
    (kind # "none" /\ ForwardersIdle /\ evq = <<>>) =>
        /\ HasRecord
        /\ stats[ChanId].received_count <= stats[ChanId].sent_count
        /\ kind = "bounded" =>
              stats[ChanId].sent_count <= stats[ChanId].received_count + capacity + 2
        /\ kind = "oneshot" =>
              stats[ChanId].sent_count <= stats[ChanId].received_count + 1

\* C15 witness: a bounded channel at rest with both forwarders blocked in
\* their sends and messages in flight between the two counts.
C15_Witness ==
    /\ kind = "bounded" /\ ForwardersIdle /\ evq = <<>>
    /\ sf_pc = "send" /\ rf_pc = "send"
    /\ HasRecord
    /\ stats[ChanId].sent_count = stats[ChanId].received_count + capacity + 1

\* C16: log bound: in every reachable state and for every channel
\* |sent_logs| <= LOG_LIMIT and |received_logs| <= LOG_LIMIT, for every
\* configured LOG_LIMIT, 0 and 1 included, and any number of events.
C16_LogBound ==
    \A id \in DOMAIN stats :
        /\ Len(stats[id].sent_logs) <= log_limit
        /\ Len(stats[id].received_logs) <= log_limit

\* The sequence hi, hi - 1, ..., lo (empty when hi < lo).
Descending(hi, lo) == [i \in 1..(hi - lo + 1) |-> hi - i + 1]

\* lo, lo + 1, ..., hi
Ascending(lo, hi) == [i \in 1..(hi - lo + 1) |-> lo + i - 1]

OldestKept(n) == IF n - log_limit + 1 > 1 THEN n - log_limit + 1 ELSE 1

\* C17: log contents: with LOG_LIMIT = L >= 1, after n MessageSent events of
\* a channel the logs view returns for sent_logs exactly the indices
\* n, n-1, ..., max(1, n-L+1) in descending order, the stored queue holding
\* them in increasing order; likewise received_logs after n MessageReceived.
C17_LogContents ==
    log_limit >= 1 =>
        \A id \in DOMAIN stats :
            LET view == get_channel_logs(stats, id)
                ns == stats[id].sent_count
                nr == stats[id].received_count
            IN /\ view # Nothing
               /\ view[1].sent_logs = Descending(ns, OldestKept(ns))
               /\ view[1].received_logs = Descending(nr, OldestKept(nr))
               /\ stats[id].sent_logs = Ascending(OldestKept(ns), ns)
               /\ stats[id].received_logs = Ascending(OldestKept(nr), nr)

\* C17 witness: three messages sent with LOG_LIMIT = 2, so that the oldest
\* entry was evicted, and one message received.
C17_Witness ==
    /\ log_limit = 2
    /\ \E id \in DOMAIN stats :
          /\ stats[id].sent_count = 3
          /\ get_channel_logs(stats, id)[1].sent_logs = <<3, 2>>
          /\ stats[id].received_count = 1

\* The label a record of a call site is expected to show before any suffix.
ExpectedBase(cs) ==
    CASE cs.label # Nothing -> cs.label[1]
      [] cs.label = Nothing /\ cs.source = "src/main.rs:10" -> "src/main.rs:10"
      [] cs.label = Nothing /\ cs.source = "src/bin/worker.rs:120" -> "bin/worker.rs:120"
      [] cs.label = Nothing /\ cs.source = "examples/tokio/iter.rs:7" -> "tokio/iter.rs:7"

ExpectedSuffix(iter) ==
    CASE iter = 0 -> ""
      [] iter = 1 -> "-2"
      [] iter = 2 -> "-3"
      [] iter = 3 -> "-4"
      [] iter = 4 -> "-5"

\* Records created before record id at the same source; ids are handed out in
\* the order of creation and Created events are processed in that order.
EarlierAtSource(id) == {j \in DOMAIN stats : j < id /\ stats[j].source = stats[id].source}

\* C18: iter disambiguation: the k channels created at one source get
\* iter 0, 1, ..., k-1 in the order their Created events are processed, and
\* show the labels base, base-2, ..., base-k, base being the user label or
\* else "<parent_dir>/<filename>:LINE"; channels created at other sources in
\* between do not change these values: they hold in every state, whatever
\* was created or counted since.
C18_IterDisambiguation ==
    \A id \in DOMAIN stats :
        /\ stats[id].iter = Cardinality(EarlierAtSource(id))
        /\ SerializableChannelStats(stats[id]).label =
              ExpectedBase(stats[id]) \o ExpectedSuffix(stats[id].iter)

\* C18 witness: three unlabelled channels of one source, shown as base,
\* base-2 and base-3, with a channel of another source created in between.
C18_Witness ==
    /\ DOMAIN stats = 0..3
    /\ stats[0].source = ChanSource /\ stats[1].source = ChanSource
    /\ stats[2].source # ChanSource /\ stats[3].source = ChanSource
    /\ SerializableChannelStats(stats[0]).label = "src/main.rs:10"
    /\ SerializableChannelStats(stats[1]).label = "src/main.rs:10-2"
    /\ SerializableChannelStats(stats[3]).label = "src/main.rs:10-3"

\* C19: channel type round trip: deserialize(serialize(t)) = t for
\* Bounded(n), Unbounded and Oneshot, the serialized forms being
\* "bounded[n]", "unbounded" and "oneshot".
C19_ChannelTypeRoundTrip ==
    /\ ct_out # Nothing => ct_out[1] = ct_in[1]
    /\ ct_text # Nothing =>
          /\ ct_in[1] = Unbounded => ct_text[1] = "unbounded"
          /\ ct_in[1] = Oneshot => ct_text[1] = "oneshot"
          /\ ct_in[1].tag = "Bounded" =>
                /\ SubSeq(ct_text[1], 1, 8) = "bounded["
                /\ Char(ct_text[1], Len(ct_text[1])) = "]"
                /\ Len(ct_text[1]) =
                      9 + (IF ct_in[1].cap < 10 THEN 1 ELSE IF ct_in[1].cap < 100 THEN 2 ELSE 3)
          /\ ct_in[1] = Bounded(0) => ct_text[1] = "bounded[0]"
          /\ ct_in[1] = Bounded(7) => ct_text[1] = "bounded[7]"
          /\ ct_in[1] = Bounded(10) => ct_text[1] = "bounded[10]"
          /\ ct_in[1] = Bounded(99) => ct_text[1] = "bounded[99]"
          /\ ct_in[1] = Bounded(120) => ct_text[1] = "bounded[120]"

\* C19 witness: Bounded(120) written as "bounded[120]" and read back.
C19_Witness ==
    /\ ct_in = Some(Bounded(120))
    /\ ct_text = Some("bounded[120]")
    /\ ct_out = Some(Bounded(120))

\* A forwarder step taken at an event emission while the collector is gone.
FailedEmitStep ==
    /\ ~collector_alive
    /\ \/ sf_pc \in {"emit", "notify", "exit"} /\ sf_pc' # sf_pc
       \/ rf_pc \in {"emit", "exit"} /\ rf_pc' # rf_pc

\* C20: observation failures never reach the application: with the collector
\* stopped, so that every event send fails, the forwarders of the three
\* wrappers relay every message, in order, and propagate closure as with a
\* live collector; a failed event send changes no channel and no outer end,
\* and the forwarder goes on to the step that follows the emission.
C20_ObservationFailuresContained ==
    /\ [](IsMpsc => IsPrefix(received, accepted))
    /\ []((IsMpsc /\ ~orx_dropped) => NoStranded)
    /\ []((IsMpsc /\ rx_eos) => received = accepted)
    /\ [](kind = "oneshot" => (Len(received) <= 1 /\ IsPrefix(received, accepted)))
    /\ [][FailedEmitStep =>
            /\ UNCHANGED <<chanVars, appVars>>
            /\ (IsMpsc /\ sf_pc = "emit" /\ sf_pc' # sf_pc) => sf_pc' = "select"
            /\ (IsMpsc /\ rf_pc = "emit" /\ rf_pc' # rf_pc) => rf_pc' = "select"]_vars
    /\ ReceiverKeepsReceiving =>
          /\ (IsMpsc /\ otx_dropped) ~> (orx_dropped \/ (rx_eos /\ received = accepted))
          /\ (kind # "none" /\ (otx_dropped \/ orx_dropped)) ~> BothDone

\* C20 witness: no event reached the collector, not even Created; three
\* messages were relayed to the receiver, which then saw end-of-stream, and
\* both forwarders are gone.
C20_Witness ==
    /\ ~collector_alive
    /\ IsMpsc /\ stats = <<>>
    /\ Len(accepted) >= 3 /\ received = accepted /\ rx_eos
    /\ BothDone

\* The collector takes the event at the head of the queue.
CollectStep == evq # <<>> /\ evq' = Tail(evq)

\* C21: counters are monotone: no collector step decreases sent_count or
\* received_count of a record; MessageSent adds exactly 1 to sent_count only,
\* MessageReceived exactly 1 to received_count only, Closed and Notified
\* change neither, and no event changes the counters of another channel.
C21_CountersMonotone ==
    [][CollectStep =>
         \A id \in DOMAIN stats :
            LET e == Head(evq)
                ds == stats'[id].sent_count - stats[id].sent_count
                dr == stats'[id].received_count - stats[id].received_count
            IN /\ id \in DOMAIN stats'
               /\ ds >= 0 /\ dr >= 0
               /\ (e.type = "MessageSent" /\ e.id = id) => (ds = 1 /\ dr = 0)
               /\ (e.type = "MessageReceived" /\ e.id = id) => (ds = 0 /\ dr = 1)
               /\ e.type \in {"Closed", "Notified"} => (ds = 0 /\ dr = 0)
               /\ e.id # id => (ds = 0 /\ dr = 0)]_vars

\* C21 witness: a record counted two sent and one received message, one of
\* them after it was closed.
C21_Witness ==
    \E id \in DOMAIN stats :
        /\ stats[id].state = "Closed"
        /\ stats[id].sent_count = 2
        /\ stats[id].received_count = 1
        /\ evq = <<>> /\ produced = 5

\* The ids whose Created event the collector has processed: the ids handed
\* out so far, less those whose Created event is still in the queue.
CreatedProcessed ==
    {id \in 0..(next_id - 1) :
        \A k \in 1..Len(evq) : ~(evq[k].type = "Created" /\ evq[k].id = id)}

\* C22: the stats map has an entry for id exactly when a Created event for id
\* has been processed; no step removes an entry, and only a collector step
\* on a Created event adds one (the entry of that event's id).
C22_MapMembership ==
    /\ [](DOMAIN stats = CreatedProcessed)
    /\ [][/\ DOMAIN stats \subseteq DOMAIN stats'
          /\ DOMAIN stats' # DOMAIN stats =>
                /\ CollectStep
                /\ Head(evq).type = "Created"
                /\ DOMAIN stats' = DOMAIN stats \cup {Head(evq).id}]_vars

\* C22 witness: a record was closed and is still in the map, and the
\* collector is about to take a Closed event of an id that has no record.
C22_Witness ==
    /\ DOMAIN stats = {0}
    /\ stats[0].state = "Closed"
    /\ evq # <<>>
    /\ Head(evq).type = "Closed"
    /\ Head(evq).id \notin DOMAIN stats

\* C23: a MessageSent, MessageReceived, Closed or Notified event for an id
\* without a record leaves the whole map unchanged, and the record a Created
\* event inserts starts at sent_count = 0, received_count = 0, state Active
\* and empty logs, whatever was dropped for that id before.
C23_UnknownIdsDropped ==
    [][CollectStep =>
         LET e == Head(evq)
         IN /\ (e.type # "Created" /\ e.id \notin DOMAIN stats) => stats' = stats
            /\ e.type = "Created" =>
                  /\ e.id \in DOMAIN stats'
                  /\ stats'[e.id].sent_count = 0
                  /\ stats'[e.id].received_count = 0
                  /\ stats'[e.id].state = "Active"
                  /\ stats'[e.id].sent_logs = <<>>
                  /\ stats'[e.id].received_logs = <<>>]_vars

\* C23 witness: two events were dropped while no id had a record, and the
\* map is still empty when the first Created event arrives.
C23_Witness ==
    /\ produced = 3 /\ next_id = 1
    /\ stats = <<>>
    /\ evq # <<>>
    /\ Head(evq).type = "Created"

\* C24: the snapshot order is a total order on the records of the map: the
\* comparison of two distinct records is never Equal, labelled records come
\* before unlabelled ones, and the sorted snapshot is one sequence.
C24_SnapshotTotalOrder ==
    /\ \A i, j \in DOMAIN stats :
          /\ i # j => compare_channel_stats(stats[i], stats[j]) # "Equal"
          /\ (stats[i].label # Nothing /\ stats[j].label = Nothing) =>
                compare_channel_stats(stats[i], stats[j]) = "Less"
    /\ Cardinality(get_sorted_channel_stats(stats)) = 1

\* C25: when the collector applies MessageSent or MessageReceived to a record
\* whose state is Active or Full, the state afterwards is Full exactly when
\* the type is Bounded(c) and queued >= c or the type is Oneshot and
\* queued >= 1, queued being taken from the counters after the increment;
\* otherwise it is Active.
C25_StateRecomputation ==
    [][(/\ CollectStep
        /\ Head(evq).type \in {"MessageSent", "MessageReceived"}
        /\ Head(evq).id \in DOMAIN stats
        /\ stats[Head(evq).id].state \in {"Active", "Full"}) =>
         LET after == stats'[Head(evq).id]
             diff == after.sent_count - after.received_count - 1
             q == IF diff > 0 THEN diff ELSE 0
             t == after.channel_type
             full == \/ t.tag = "Bounded" /\ q >= t.cap
                     \/ t.tag = "Oneshot" /\ q >= 1
         IN after.state = IF full THEN "Full" ELSE "Active"]_vars

\* C25 witness: a bounded channel of capacity 1 became Full on its second
\* MessageSent, and a MessageReceived is about to make it Active again.
C25_Witness ==
    \E id \in DOMAIN stats :
        /\ stats[id].channel_type = Bounded(1)
        /\ stats[id].state = "Full"
        /\ stats[id].sent_count = 2
        /\ stats[id].received_count = 0
        /\ evq = <<MessageReceived(id)>>

\* C26: for all counter values queued = max(0, sent_count - received_count - 1),
\* without underflow or wrap-around: it is 0 when sent_count = received_count,
\* when sent_count = 0 and when received_count > sent_count.
C26_DerivedOccupancy ==
    \A id \in DOMAIN stats :
        LET cs == stats[id]
            diff == cs.sent_count - cs.received_count - 1
        IN /\ queued(cs) = IF diff > 0 THEN diff ELSE 0
           /\ SerializableChannelStats(cs).queued = queued(cs)
           /\ cs.sent_count = cs.received_count => queued(cs) = 0
           /\ cs.sent_count = 0 => queued(cs) = 0
           /\ cs.received_count > cs.sent_count => queued(cs) = 0

\* C26 witness: a record has counted more received than sent messages.
C26_Witness ==
    \E id \in DOMAIN stats :
        /\ stats[id].received_count = 3
        /\ stats[id].sent_count = 1
        /\ evq = <<>>

\* C27: for every n the n-th MessageSent event of a channel is put on the
\* event queue before its n-th MessageReceived event, in every interleaving
\* of the two forwarders: at no time have more MessageReceived than
\* MessageSent events been emitted.
C27_SentEmittedBeforeReceived == EmittedReceived <= EmittedSent

\* A step puts an event of type t on the event queue.
Emits(t) == Len(evq') = Len(evq) + 1 /\ evq'[Len(evq')].type = t

SfEmitsClosed == sf_pc = "exit" /\ sf_pc' = "drop"

RfEmitsClosed == rf_pc = "exit" /\ rf_pc' = "drop"

\* C28: each forwarder of a bounded or unbounded wrapper emits exactly one
\* Closed event, as its last action when it exits, and no MessageSent or
\* MessageReceived after it; so at most as many Closed events are queued as
\* forwarders have exited, and the record is not Closed while both
\* forwarders are still running.
C28_ClosedEmission ==
    /\ [](IsMpsc =>
            /\ PendingEvents("Closed") <=
                  (IF sf_pc \in {"drop", "done"} THEN 1 ELSE 0)
                + (IF rf_pc \in {"drop", "done"} THEN 1 ELSE 0)
            /\ ClosedInSnapshot => (sf_pc \in {"drop", "done"} \/ rf_pc \in {"drop", "done"}))
    /\ [][IsMpsc =>
            /\ (sf_pc = "exit" /\ sf_pc' # sf_pc) => (SfEmitsClosed /\ Emits("Closed"))
            /\ (rf_pc = "exit" /\ rf_pc' # rf_pc) => (RfEmitsClosed /\ Emits("Closed"))
            /\ Emits("Closed") => (SfEmitsClosed /\ rf_pc' = rf_pc) \/ (RfEmitsClosed /\ sf_pc' = sf_pc)
            /\ sf_pc \in {"drop", "done"} => sf_pc' \in {"drop", "done"}
            /\ rf_pc \in {"drop", "done"} => rf_pc' \in {"drop", "done"}
            /\ Emits("MessageSent") => sf_pc = "emit"
            /\ Emits("MessageReceived") => rf_pc = "emit"]_vars

\* C28 witness: both forwarders of a bounded wrapper have ended and their two
\* Closed events are on the event queue.
C28_Witness ==
    /\ kind = "bounded" /\ BothDone
    /\ Len(evq) = 2
    /\ evq[1].type = "Closed" /\ evq[2].type = "Closed"

\* C29: when several threads instrument their first channel concurrently,
\* exactly one event queue, one stats map, one collector thread and one
\* metrics-server thread are created, every caller gets a handle to that
\* queue, and no event waits in a queue that no collector drains.
C29_ExactlyOnceInit ==
    /\ queues <= 1 /\ stats_maps <= 1
    /\ Cardinality(collector_threads) <= 1 /\ server_threads <= 1
    /\ (\E t \in Threads : init_pc[t] \in {"have", "done"}) =>
          /\ queues = 1 /\ stats_maps = 1
          /\ collector_threads = {1} /\ server_threads = 1
          /\ STATS_STATE = Some(1)
    /\ \A t \in Threads :
          init_pc[t] \in {"have", "done"} =>
             handle[t] = 1 /\ handle[t] \in collector_threads
    /\ \A q \in Threads : qlen[q] > 0 => q \in collector_threads

\* C29 witness: one thread ran the initialisation and sent its Created event
\* while all the others, which called during the initialisation, still wait.
C29_Witness ==
    \E t \in Threads :
        /\ init_pc[t] = "done"
        /\ \A u \in Threads \ {t} : init_pc[u] = "waiting"
        /\ qlen[1] = 1

\* An outer send on the bounded wrapper would block: to_inner has no room.
OuterSendBlocked ==
    /\ kind = "bounded"
    /\ ~otx_dropped /\ ~to_inner_closed
    /\ Len(to_inner) = capacity

\* C30: for a bounded wrapper of capacity C, in a quiescent state where an
\* outer send is blocked (to_inner is full, both forwarders are blocked in
\* their sends, the collector has applied every event) the record shows
\* state Full and queued >= C.
C30_FullWhenSenderBlocked ==
    (/\ OuterSendBlocked
     /\ sf_hand # None /\ rf_hand # None
     /\ ForwardersIdle
     /\ evq = <<>>) =>
        /\ HasRecord
        /\ stats[ChanId].state = "Full"
        /\ queued(stats[ChanId]) >= capacity

\* C30 witness: a wrapper of capacity 2 holds eight accepted messages, the
\* receiver has taken none, both forwarders are blocked and the collector
\* has caught up.
C30_Witness ==
    /\ OuterSendBlocked /\ capacity = 2
    /\ sf_hand # None /\ rf_hand # None
    /\ ForwardersIdle
    /\ evq = <<>>
    /\ Len(accepted) = 8 /\ received = <<>>

\* A lookup is made in this step.
LookupStep == logs_resp' # logs_resp \/ logs_req' # logs_req

\* The text is a decimal number: an optional '+' and then digits only, at
\* least one.
IsDecimalText(s) ==
    LET body == IF s # "" /\ Head(s) = "+" THEN Tail(s) ELSE s
    IN body # "" /\ \A i \in 1..Len(body) : \E d \in 1..10 : Char(body, i) = Char(Digits, d)

\* The text without its sign and without leading zeros.
RECURSIVE StripZeros(_)
StripZeros(s) == IF Len(s) > 1 /\ Head(s) = "0" THEN StripZeros(Tail(s)) ELSE s

Canonical(s) == StripZeros(IF s # "" /\ Head(s) = "+" THEN Tail(s) ELSE s)

\* C31: the log lookup returns no result exactly when the id text is not a
\* decimal number or no record has that id, and leaves the stats map
\* unchanged; for every id with a record it returns that record's logs, also
\* when the channel is Closed or Notified or its logs are empty.
C31_LogLookupErrors ==
    [][LookupStep =>
         LET text == logs_req'[1]
             result == logs_resp'[1]
             known == {id \in DOMAIN stats : to_string(id) = Canonical(text)}
         IN /\ stats' = stats /\ evq' = evq
            /\ result = Nothing <=> (~IsDecimalText(text) \/ known = {})
            /\ \A id \in known :
                  /\ IsDecimalText(text) => result # Nothing
                  /\ result # Nothing =>
                        /\ Len(result[1].sent_logs) = Len(stats[id].sent_logs)
                        /\ Len(result[1].received_logs) = Len(stats[id].received_logs)]_vars

\* C31 witness: the logs of a closed channel without log entries were asked
\* for and returned.
C31_Witness ==
    /\ logs_req = Some("0")
    /\ logs_resp # Nothing /\ logs_resp[1] # Nothing
    /\ logs_resp[1][1].sent_logs = <<>>
    /\ 0 \in DOMAIN stats /\ stats[0].state = "Closed"

Min(a, b) == IF a < b THEN a ELSE b

\* The logs of a record hold the newest min(count, limit) indices, the last
\* of them the count.
LogsMatch(logs, count, limit) ==
    /\ Len(logs) = Min(count, limit)
    /\ logs # <<>> => logs[Len(logs)] = count

\* A record as it is between two events: logs and state agree with the
\* counters.
WholeRecord(cs, limit) ==
    /\ LogsMatch(cs.sent_logs, cs.sent_count, limit)
    /\ LogsMatch(cs.received_logs, cs.received_count, limit)
    /\ cs.state \in {"Active", "Full"} => update_state(cs) = cs

\* C32: snapshots are consistent: no snapshot shows a half-applied event;
\* with LOG_LIMIT = L >= 1 every record of every snapshot has
\* |sent_logs| = min(sent_count, L) with sent_count as its last index when
\* non-empty, and likewise for received_logs and received_count.
C32_SnapshotsConsistent ==
    snapshot # Nothing =>
        \A id \in DOMAIN snapshot[1] : WholeRecord(snapshot[1][id], log_limit)

\* C32 witness: the last snapshot shows a record with one sent message
\* while the collector, holding the write lock, has counted the second one
\* and not yet logged it.
C32_Witness ==
    /\ snapshot # Nothing
    /\ lock = "write" /\ col_pc = "evict"
    /\ \E id \in DOMAIN snapshot[1] :
          /\ snapshot[1][id].sent_count = 1
          /\ snapshot[1][id].sent_logs = <<1>>
          /\ stats[id].sent_count = 2

\* C33: Full is reported only for bounded channels: the record of an
\* unbounded channel is never Full, and neither is the record of a one-shot,
\* whose counters never give queued >= 1.
C33_FullOnlyBounded ==
    HasRecord =>
        /\ kind \in {"unbounded", "oneshot"} => stats[ChanId].state # "Full"
        /\ kind = "oneshot" => queued(stats[ChanId]) = 0
        /\ stats[ChanId].state = "Full" => stats[ChanId].channel_type.tag = "Bounded"

\* C33 witness: an unbounded channel has three messages counted as sent and
\* none as received, and is Active.
C33_Witness ==
    /\ kind = "unbounded" /\ HasRecord
    /\ stats[ChanId].sent_count = 3 /\ stats[ChanId].received_count = 0
    /\ stats[ChanId].state = "Active"

\* C34: counting continues after closure: a MessageSent or MessageReceived
\* applied to a record whose state is Closed or Notified increments the
\* counter and appends a log entry with the new count, and leaves the state
\* (and the other counter and log) unchanged.
C34_CountingAfterClosure ==
    [][(/\ CollectStep
        /\ Head(evq).type \in {"MessageSent", "MessageReceived"}
        /\ Head(evq).id \in DOMAIN stats
        /\ stats[Head(evq).id].state \in {"Closed", "Notified"}) =>
         LET before == stats[Head(evq).id]
             after == stats'[Head(evq).id]
         IN /\ after.state = before.state
            /\ IF Head(evq).type = "MessageSent"
               THEN /\ after.sent_count = before.sent_count + 1
                    /\ after.sent_logs # <<>>
                    /\ after.sent_logs[Len(after.sent_logs)] = after.sent_count
                    /\ after.received_count = before.received_count
                    /\ after.received_logs = before.received_logs
               ELSE /\ after.received_count = before.received_count + 1
                    /\ after.received_logs # <<>>
                    /\ after.received_logs[Len(after.received_logs)] = after.received_count
                    /\ after.sent_count = before.sent_count
                    /\ after.sent_logs = before.sent_logs]_vars

\* C34 witness: the outer sender was dropped and the send-forwarder's Closed
\* is in the record, while the recv-forwarder, still running, has relayed a
\* message whose MessageReceived the collector takes next.
C34_Witness ==
    /\ IsMpsc /\ otx_dropped /\ ~orx_dropped
    /\ sf_pc = "done" /\ ~Exited(rf_pc)
    /\ ClosedInSnapshot
    /\ evq # <<>> /\ Head(evq).type = "MessageReceived"

\* C35: Created comes first: once a channel is instrumented its Created
\* event is applied or stands at the head of the event queue, before every
\* other event of the channel (no forwarder runs before it is queued), and
\* the collector never takes an event of the channel while the channel has
\* no record.
C35_CreatedFirst ==
    /\ [](/\ kind = "none" => (evq = <<>> /\ sf_pc = "unspawned" /\ rf_pc = "unspawned")
          /\ kind # "none" => (HasRecord \/ (evq # <<>> /\ Head(evq).type = "Created"))
          /\ \A k \in 2..Len(evq) : evq[k].type # "Created")
    /\ [][(CollectStep /\ Head(evq).type # "Created") => Head(evq).id \in DOMAIN stats]_vars

\* C35 witness: the collector lags: the Created event is still on the queue
\* and the first MessageSent of the channel stands behind it.
C35_Witness ==
    /\ ~HasRecord
    /\ Len(evq) = 2
    /\ evq[1].type = "Created" /\ evq[2].type = "MessageSent"

\* The records of the map created at a source location.
AtSource(src) == {id \in DOMAIN stats : stats[id].source = src}

\* C36: in every reachable stats map the pairs (source, iter) are pairwise
\* distinct, the iter values of the records of a source are exactly
\* 0..k-1 for its k records, and the iter of a record never changes.
C36_IterPerSource ==
    /\ [](\A i \in DOMAIN stats :
             /\ \A j \in DOMAIN stats :
                   (i # j /\ stats[i].source = stats[j].source) => stats[i].iter # stats[j].iter
             /\ {stats[j].iter : j \in AtSource(stats[i].source)} =
                   0..(Cardinality(AtSource(stats[i].source)) - 1))
    /\ [][\A i \in DOMAIN stats : i \in DOMAIN stats' /\ stats'[i].iter = stats[i].iter]_vars

\* C36 witness: three channels were created at one source location and a
\* fourth at another; one of the three has been closed since.
C36_Witness ==
    /\ Cardinality(DOMAIN stats) = 4
    /\ Cardinality(AtSource(ChanSource)) = 3
    /\ \E i \in AtSource(ChanSource) : stats[i].state = "Closed"

\* C37: Notified is emitted only by the one-shot send-forwarder, directly
\* after its MessageSent (so after the forward into inner_tx succeeded) and
\* at most once; bounded and unbounded wrappers never emit Notified and
\* their records never reach state Notified.
C37_NotifiedOnlyOneshotSender ==
    /\ [](/\ PendingEvents("Notified") <= 1
          /\ IsMpsc => /\ PendingEvents("Notified") = 0
                       /\ HasRecord => stats[ChanId].state # "Notified"
          /\ (HasRecord /\ stats[ChanId].state = "Notified") =>
                /\ PendingEvents("Notified") = 0
                /\ message_sent
          /\ (PendingEvents("Notified") = 1 \/ sf_pc = "notify") => EmittedSent = 1)
    /\ [][/\ Emits("Notified") =>
                /\ kind = "oneshot"
                /\ sf_pc = "notify" /\ sf_pc' = "exit"
                /\ rf_pc' = rf_pc
                /\ ~message_sent /\ message_sent'
          /\ (sf_pc' = "notify" /\ sf_pc # "notify") =>
                (sf_pc = "emit" /\ Emits("MessageSent") /\ inner_tx_dropped)
          /\ (kind = "oneshot" /\ sf_pc = "notify" /\ sf_pc' # sf_pc) => Emits("Notified")
          /\ message_sent => message_sent']_vars

\* C37 witness: a one-shot delivered its value and the record is Notified
\* with one message sent.
C37_Witness ==
    /\ kind = "oneshot" /\ HasRecord
    /\ stats[ChanId].state = "Notified"
    /\ stats[ChanId].sent_count = 1
    /\ sf_pc = "done"

\* C38: Full is not sticky: on a bounded record in state Full a
\* MessageReceived that brings queued below the capacity sets the state to
\* Active, a MessageSent that brings queued to the capacity sets an Active
\* record to Full, and a MessageSent or MessageReceived changes the state of
\* no record that is not Active or Full.
C38_FullNotSticky ==
    [][(/\ CollectStep
        /\ Head(evq).type \in {"MessageSent", "MessageReceived"}
        /\ Head(evq).id \in DOMAIN stats) =>
         LET e == Head(evq)
             before == stats[e.id]
             after == stats'[e.id]
             diff == after.sent_count - after.received_count - 1
             q == IF diff > 0 THEN diff ELSE 0
         IN /\ (/\ before.state = "Full" /\ before.channel_type.tag = "Bounded"
                /\ e.type = "MessageReceived" /\ q < before.channel_type.cap)
                  => after.state = "Active"
            /\ (/\ before.state = "Active" /\ before.channel_type.tag = "Bounded"
                /\ e.type = "MessageSent" /\ q >= before.channel_type.cap)
                  => after.state = "Full"
            /\ after.state # before.state =>
                  (before.state \in {"Active", "Full"} /\ after.state \in {"Active", "Full"})]_vars

\* C38 witness: a bounded record of capacity 2 is Full with three messages
\* sent, and the collector takes a MessageReceived for it next.
C38_Witness ==
    \E id \in DOMAIN stats :
        /\ stats[id].channel_type = Bounded(2)
        /\ stats[id].state = "Full"
        /\ stats[id].sent_count = 3 /\ stats[id].received_count = 0
        /\ evq = <<MessageReceived(id)>>

\* Messages held by the two forwarders between the channels.
InHands == (IF sf_hand # None THEN 1 ELSE 0) + (IF rf_hand # None THEN 1 ELSE 0)

\* C39: pipeline bound of a bounded wrapper of capacity C: at most 3*C + 2
\* messages are accepted and not yet taken by the outer receiver, at most
\* 2*C + 2 of them outside the inner channel; with 3*C + 2 pending and the
\* outer receiver held, to_inner is full and both forwarders are blocked, so
\* that a further outer send blocks until the receiver takes a message.
C39_PipelineBound ==
    kind = "bounded" =>
        /\ Pending <= 3 * capacity + 2
        /\ Len(to_inner) + Len(from_inner) + InHands <= 2 * capacity + 2
        /\ Len(inner) <= capacity
        /\ (Pending = 3 * capacity + 2 /\ ~orx_dropped) =>
              /\ Len(to_inner) = capacity
              /\ ~HasRoom(to_inner)
              /\ ForwardersIdle

\* C39 witness: a wrapper of capacity 1 holds five pending messages after the
\* receiver took one, and the sender has attempts left.
C39_Witness ==
    /\ kind = "bounded" /\ capacity = 1
    /\ Pending = 5
    /\ Len(received) = 1
    /\ next_msg < MaxBurst
    /\ ~otx_dropped /\ ~orx_dropped


\* A step of the console's loop while the App is paused.
PausedStep == app.paused /\ srv' = srv

\* C40: while paused is set, no loop iteration and no key press replaces the
\* stats on display or sends a request to the server, and the cached logs
\* are left as they are or cleared.
C40_ConsolePause ==
    [][PausedStep =>
           /\ app'.stats = app.stats
           /\ app'.requests = app.requests
           /\ app'.logs \in {app.logs, Nothing}]_vars

\* Paused on an older answer than the server's present one, logs shown and
\* their cache cleared by a key press.
C40_Witness ==
    /\ app.paused
    /\ app.running
    /\ app.show_logs
    /\ app.logs = Nothing
    /\ app.stats.version < srv.version
    /\ app.stats.len > 0
    /\ app.requests = 2

====
